---- MODULE Spec2Model ----
(***************************************************************************)
(* Order interpreter of hub3ps/lia2.0: parse_order_text ->                 *)
(* resolve_parsed_items -> match_items, with the text primitives they      *)
(* share.  A Python str is a sequence of one-character strings; a regular  *)
(* expression of the source is an operator that matches it on such a       *)
(* sequence, position by position.                                         *)
(***************************************************************************)
EXTENDS Integers, Sequences, FiniteSets, TLC

VARIABLES
    text,         \* the raw message handed to parse_order_text
    menu,         \* the menu snapshot (menu_index) handed to match_items
    wratio,       \* rapidfuzz's fuzz.WRatio, as far as it has been evaluated
    pc,           \* position of the pipeline / of the primitive under call
    items,        \* List[ParsedItem]: parser output, then resolver output
    idx,          \* match_items: number of lines the loop has consumed
    cart,         \* match_items: interpreted_items
    pendencies,   \* match_items: pendencies
    confidence,   \* InterpretedOrder.confidence, in tenths
    call,         \* arguments and result of the call of a primitive
    results,      \* the outcomes of the pipeline runs that have ended
    itens,        \* CartState.itens
    fsm           \* the FSM object: current_state, state_data, transition_history

vars == <<text, menu, wratio, pc, items, idx, cart, pendencies, confidence, call,
          results, itens, fsm>>

----------------------------------------------------------------------------
(* Characters.                                                             *)

LowerSeq == <<"a","b","c","d","e","f","g","h","i","j","k","l","m",
              "n","o","p","q","r","s","t","u","v","w","x","y","z">>
UpperSeq == <<"A","B","C","D","E","F","G","H","I","J","K","L","M",
              "N","O","P","Q","R","S","T","U","V","W","X","Y","Z">>
\* accented letters of the source's patterns and tests, with their
\* upper-case forms and the ASCII letter unidecode gives for them
AccentLowerSeq == <<"á","ã","â","ç","é","ê","í","ó","õ","ú">>
AccentUpperSeq == <<"Á","Ã","Â","Ç","É","Ê","Í","Ó","Õ","Ú">>
AccentBaseSeq  == <<"a","a","a","c","e","e","i","o","o","u">>

Range(f) == {f[i] : i \in DOMAIN f}

Lowers  == Range(LowerSeq)
Uppers  == Range(UpperSeq)
Digits  == {"0","1","2","3","4","5","6","7","8","9"}
AccentLowers == Range(AccentLowerSeq)
AccentUppers == Range(AccentUpperSeq)
Accents == AccentLowers \cup AccentUppers
Spaces  == {" ", "\t", "\n"}

\* \w of Python's re on str: letters (accented ones too), digits, underscore
WordChars == Lowers \cup Uppers \cup Digits \cup Accents \cup {"_"}
IsWord(c) == c \in WordChars

IndexIn(seq, c) == CHOOSE i \in DOMAIN seq : seq[i] = c

\* str.lower() on one character
LowerChar(c) ==
    IF c \in Uppers THEN LowerSeq[IndexIn(UpperSeq, c)]
    ELSE IF c \in AccentUppers THEN AccentLowerSeq[IndexIn(AccentUpperSeq, c)]
    ELSE c

\* unidecode() on one character
UnidecodeChar(c) ==
    IF c \in AccentLowers THEN AccentBaseSeq[IndexIn(AccentLowerSeq, c)]
    ELSE IF c \in AccentUppers
         THEN UpperSeq[IndexIn(LowerSeq, AccentBaseSeq[IndexIn(AccentUpperSeq, c)])]
    ELSE c

DigitValue(c) ==
    CASE c = "0" -> 0 [] c = "1" -> 1 [] c = "2" -> 2 [] c = "3" -> 3 [] c = "4" -> 4
      [] c = "5" -> 5 [] c = "6" -> 6 [] c = "7" -> 7 [] c = "8" -> 8 [] c = "9" -> 9

----------------------------------------------------------------------------
(* String helpers: str methods and the building blocks of the patterns.    *)

\* F applied to the value v, which is evaluated once
With(v, F(_)) == CASE v = v -> F(v)

MapChars(Op(_), s) == [i \in 1..Len(s) |-> Op(s[i])]
Lower(s)     == MapChars(LowerChar, s)
Unidecode(s) == MapChars(UnidecodeChar, s)

FilterChars(s, keep) == SelectSeq(s, LAMBDA c : c \in keep)
DropChars(s, drop)   == SelectSeq(s, LAMBDA c : c \notin drop)

From(s, p) == SubSeq(s, p, Len(s))      \* s[p-1:]  (positions are 1-based)
Upto(s, p) == SubSeq(s, 1, p - 1)       \* s[:p-1]

Min(S) == CHOOSE x \in S : \A y \in S : x <= y
Max(S) == CHOOSE x \in S : \A y \in S : y <= x

\* end of the maximal run of characters of `set` that starts at p (\s*, \d*)
SkipSet(s, p, set) ==
    IF p > Len(s) THEN p
    ELSE Min({q \in p..Len(s) + 1 : q = Len(s) + 1 \/ s[q] \notin set})

SkipWS(s, p) == SkipSet(s, p, Spaces)

LStripSet(s, set) == SubSeq(s, SkipSet(s, 1, set), Len(s))

RStripSet(s, set) ==
    SubSeq(s, 1, Max({q \in 0..Len(s) : q = 0 \/ s[q] \notin set}))

StripSet(s, set) == RStripSet(LStripSet(s, set), set)   \* str.strip(chars)
Strip(s) == StripSet(s, Spaces)                         \* str.strip()

\* \b at position p: between s[p-1] and s[p]
Boundary(s, p) ==
    Cardinality({i \in {p - 1, p} : i >= 1 /\ i <= Len(s) /\ IsWord(s[i])}) = 1

\* the literal lit at position p; 0 when absent, else the position after it
LitAt(s, p, lit) ==
    IF p + Len(lit) - 1 <= Len(s) /\ SubSeq(s, p, p + Len(lit) - 1) = lit
    THEN p + Len(lit) ELSE 0

\* the same under re.IGNORECASE (lit is given in lower case)
LitAtCI(s, p, lit) ==
    IF p + Len(lit) - 1 <= Len(s) /\ Lower(SubSeq(s, p, p + Len(lit) - 1)) = lit
    THEN p + Len(lit) ELSE 0

\* a pattern `w1\s+w2\s+...` of literal words at position p (IGNORECASE)
RECURSIVE WordsAtCI(_, _, _)
WordsAtCI(s, p, words) ==
    With(LitAtCI(s, p, Head(words)), LAMBDA e :
       IF e = 0 THEN 0
       ELSE IF Len(words) = 1 THEN e
       ELSE IF SkipWS(s, e) = e THEN 0
       ELSE WordsAtCI(s, SkipWS(s, e), Tail(words)))

\* first alternative of alts (each a list of words) that matches at p, and is
\* followed by \b when needB; 0 when none does
FirstAltCI(s, p, alts, needB) ==
    With({i \in 1..Len(alts) :
             /\ WordsAtCI(s, p, alts[i]) # 0
             /\ (needB => Boundary(s, WordsAtCI(s, p, alts[i])))}, LAMBDA hits :
       IF hits = {} THEN 0 ELSE WordsAtCI(s, p, alts[Min(hits)]))

\* the position of the first occurrence of sub in s from p on (0: none)
Find(s, sub, p) ==
    With({q \in p..Len(s) - Len(sub) + 1 : SubSeq(s, q, q + Len(sub) - 1) = sub}, LAMBDA hits :
       IF hits = {} THEN 0 ELSE Min(hits))

Contains(s, sub) == Find(s, sub, 1) # 0

\* str.replace(old, new), old non-empty
RECURSIVE Replace(_, _, _)
Replace(s, old, new) ==
    With(Find(s, old, 1), LAMBDA p :
       IF p = 0 THEN s
       ELSE Upto(s, p) \o new \o Replace(From(s, p + Len(old)), old, new))

\* the k-th least element of the set S of numbers
Nth(S, k) == CHOOSE i \in S : Cardinality({j \in S : j <= i}) = k

\* str.split(): the maximal runs of non-whitespace characters
SplitWS(s) ==
    With({i \in 1..Len(s) : s[i] \notin Spaces /\ (i = 1 \/ s[i - 1] \in Spaces)},
         LAMBDA starts :
       [k \in 1..Cardinality(starts) |->
           SubSeq(s, Nth(starts, k),
                  Min({q \in Nth(starts, k)..Len(s) + 1 :
                          q = Len(s) + 1 \/ s[q] \in Spaces}) - 1)])

\* sep.join(parts)
RECURSIVE Join(_, _)
Join(parts, sep) ==
    IF parts = <<>> THEN <<>>
    ELSE IF Len(parts) = 1 THEN parts[1]
    ELSE parts[1] \o sep \o Join(Tail(parts), sep)

\* str.splitlines() for the line break "\n"
RECURSIVE SplitLines(_)
SplitLines(s) ==
    With(Find(s, <<"\n">>, 1), LAMBDA p :
       IF s = <<>> THEN <<>>
       ELSE IF p = 0 THEN <<s>>
       ELSE <<Upto(s, p)>> \o SplitLines(From(s, p + 1)))

----------------------------------------------------------------------------
(* Text primitives (app/utils/text.py).                                    *)

\* the characters that `[^a-z0-9]` keeps
AlphaNum == Lowers \cup Digits

make_fingerprint(s) ==
    IF s = <<>> THEN <<>>
    ELSE FilterChars(Lower(Unidecode(s)), AlphaNum)

EdgePunct == {".", ",", "!", "?", ";", ":", "\"", "'"}

normalize_text(s) ==
    With(IF s = <<>> THEN <<>> ELSE SplitWS(Lower(Unidecode(s))), LAMBDA words :
       StripSet(Join(words, <<" ">>), EdgePunct))

----------------------------------------------------------------------------
(* Generic search and substitution for the patterns `\b(alt|alt|...)\b`    *)
(* and `(alt|alt|...)`, an alternative being literal words joined by \s+.  *)
(* A pattern is [b |-> whether \b encloses it, alts |-> the alternatives]; *)
(* matching is under re.IGNORECASE, the literals given in lower case.      *)

Pat(b, alts) == [b |-> b, alts |-> alts]

MatchPat(s, p, pat) ==
    IF pat.b /\ ~Boundary(s, p) THEN 0 ELSE FirstAltCI(s, p, pat.alts, pat.b)

\* re.search: the leftmost position >= p where pat matches (0: none)
SearchPat(s, pat, p) ==
    With({q \in p..Len(s) : MatchPat(s, q, pat) # 0}, LAMBDA hits :
       IF hits = {} THEN 0 ELSE Min(hits))

HasPat(s, pat) == SearchPat(s, pat, 1) # 0

\* re.sub(pat, rep, s): every non-overlapping match, left to right
RECURSIVE SubPatAt(_, _, _, _)
SubPatAt(s, pat, rep, p) ==
    With(SearchPat(s, pat, p), LAMBDA q :
       IF q = 0 THEN From(s, p)
       ELSE SubSeq(s, p, q - 1) \o rep \o SubPatAt(s, pat, rep, MatchPat(s, q, pat)))

SubPat(s, pat, rep) == SubPatAt(s, pat, rep, 1)

\* the match of `\s+e\s+` at p (0: none)
SpacedEAt(s, p) ==
    With(SkipWS(s, p), LAMBDA a :
    With(SkipWS(s, a + 1), LAMBDA b :
       IF a > p /\ LitAtCI(s, a, <<"e">>) # 0 /\ b > a + 1 THEN b ELSE 0))

\* the leftmost match of `\s+e\s+` from p on (0: none)
NextSpacedE(s, p) ==
    With({q \in p..Len(s) : SpacedEAt(s, q) # 0}, LAMBDA hits :
       IF hits = {} THEN 0 ELSE Min(hits))

\* re.sub(r"\s+e\s+", " ", s)
RECURSIVE SubSpacedE(_, _)
SubSpacedE(s, p) ==
    With(NextSpacedE(s, p), LAMBDA q :
       IF q = 0 THEN From(s, p)
       ELSE SubSeq(s, p, q - 1) \o <<" ">> \o SubSpacedE(s, SpacedEAt(s, q)))

\* re.sub(r"\s+", " ", s)
RECURSIVE CollapseWS(_, _)
CollapseWS(s, p) ==
    With({q \in p..Len(s) : s[q] \in Spaces}, LAMBDA hits :
       IF hits = {} THEN From(s, p)
       ELSE SubSeq(s, p, Min(hits) - 1) \o <<" ">> \o CollapseWS(s, SkipWS(s, Min(hits))))

\* int() of a run of digits
RECURSIVE IntOf(_)
IntOf(d) ==
    IF d = <<>> THEN 0 ELSE 10 * IntOf(SubSeq(d, 1, Len(d) - 1)) + DigitValue(d[Len(d)])

----------------------------------------------------------------------------
(* Parser (app/services/interpreter/parser.py).                            *)

\* _WORD_NUMBERS, in the order of the alternation
WordNumbers ==
    << <<<<"u","m">>>>, <<<<"u","m","a">>>>, <<<<"d","o","i","s">>>>, <<<<"d","u","a","s">>>>, <<<<"t","r","e","s">>>>, <<<<"t","r","ê","s">>>>,
       <<<<"q","u","a","t","r","o">>>>, <<<<"c","i","n","c","o">>>>, <<<<"s","e","i","s">>>>, <<<<"s","e","t","e">>>>, <<<<"o","i","t","o">>>>,
       <<<<"n","o","v","e">>>>, <<<<"d","e","z">>>> >>

\* _CUTOFF_RE
CutoffPat == Pat(TRUE, << <<<<"p","a","r","a">>, <<"a">>>>, <<<<"p","a","r","a">>, <<"o">>>>, <<<<"p","a","g","a","m","e","n","t","o">>>>,
                          <<<<"e","n","t","r","e","g","a">>>> >>)

\* _LEADING_VERBS_RE, without its leading ^\s*
LeadingVerbs ==
    << <<<<"g","o","s","t","a","r","i","a">>, <<"d","e">>, <<"f","a","z","e","r">>, <<"u","m">>, <<"p","e","d","i","d","o">>>>,
       <<<<"g","o","s","t","a","r","i","a">>, <<"d","e">>, <<"f","a","z","e","r">>>>, <<<<"g","o","s","t","a","r","i","a">>, <<"d","e">>>>, <<<<"g","o","s","t","a","r","i","a">>>>,
       <<<<"q","u","e","r","i","a">>>>, <<<<"q","u","e","r","o">>>>, <<<<"v","e">>>>, <<<<"v","ê">>>>, <<<<"v","e","r">>>>, <<<<"m","a","n","d","a">>>>,
       <<<<"p","o","d","e">>>>, <<<<"v","o","u">>>>, <<<<"v","a","i">>>> >>

\* _CONTEXT_RE
ContextPat ==
    Pat(TRUE, << <<<<"r","u","a">>>>, <<<<"b","a","i","r","r","o">>>>, <<<<"n","u","m","e","r","o">>>>, <<<<"n","ú","m","e","r","o">>>>, <<<<"p","r","o","x">>>>,
                 <<<<"p","r","ó","x">>>>, <<<<"p","r","a","ç","a">>>>, <<<<"e","n","t","r","e","g","a">>>>, <<<<"e","n","t","r","e","g","a","r">>>>,
                 <<<<"p","a","g","a","m","e","n","t","o">>>>, <<<<"p","i","x">>>>, <<<<"d","e","b","i","t","o">>>>, <<<<"d","é","b","i","t","o">>>>,
                 <<<<"c","r","e","d","i","t","o">>>>, <<<<"c","r","é","d","i","t","o">>>>, <<<<"c","a","r","t","a","o">>>>, <<<<"c","a","r","t","ã","o">>>>,
                 <<<<"t","r","o","c","o">>>>, <<<<"c","a","s","a">>>>, <<<<"a","p","t","o">>>>, <<<<"a","p","a","r","t","a","m","e","n","t","o">>>>,
                 <<<<"b","l","z">>>>, <<<<"o","k">>>>, <<<<"t","u","d","o">>, <<"b","e","m">>>>, <<<<"q","u","a","n","t","o","s">>>>,
                 <<<<"d","e","u">>>> >>)

\* the day-time greetings `boa\s+noite|bom\s+dia|boa\s+tarde`
DayGreetings == << <<<<"b","o","a">>, <<"n","o","i","t","e">>>>, <<<<"b","o","m">>, <<"d","i","a">>>>, <<<<"b","o","a">>, <<"t","a","r","d","e">>>> >>

\* _NOTE_KEYWORDS
NoteKeywords == << <<"c","o","r","t","a","d","o"," ","a","o"," ","m","e","i","o">>, <<"b","e","m"," ","p","a","s","s","a","d","o">> >>

\* `oiii+` at p: o, i, i and then every further i (0: none)
OiiiAt(s, p) ==
    With(LitAtCI(s, p, <<"o","i","i">>), LAMBDA e :
    With(IF e = 0 THEN 0 ELSE SkipSet(s, e, {"i", "I"}), LAMBDA f :
       IF f > e THEN f ELSE 0))

\* exactly n digits at p (0: none)
DigitsAt(s, p, n) ==
    IF p + n - 1 <= Len(s) /\ \A i \in p..p + n - 1 : s[i] \in Digits THEN p + n ELSE 0

\* `c` at p
CharAt(s, p, c) == IF p >= 1 /\ p <= Len(s) /\ s[p] = c THEN p + 1 ELSE 0

\* _TIMESTAMP_RE at the start of s: the position after the match (0: none)
\* ^\[\d{1,2}:\d{2},\s*\d{2}/\d{2}/\d{4}\]\s+[^:]+:\s*
TimestampEnd(s) ==
    With(CharAt(s, 1, "["), LAMBDA p1 :
    With(IF p1 = 0 THEN 0 ELSE SkipSet(s, p1, Digits), LAMBDA h :
    With(IF h - p1 \in {1, 2} THEN CharAt(s, h, ":") ELSE 0, LAMBDA p2 :
    With(IF p2 = 0 THEN 0 ELSE DigitsAt(s, p2, 2), LAMBDA p3 :
    With(IF p3 = 0 THEN 0 ELSE CharAt(s, p3, ","), LAMBDA p4 :
    With(IF p4 = 0 THEN 0 ELSE DigitsAt(s, SkipWS(s, p4), 2), LAMBDA p5 :
    With(IF p5 = 0 THEN 0 ELSE CharAt(s, p5, "/"), LAMBDA p6 :
    With(IF p6 = 0 THEN 0 ELSE DigitsAt(s, p6, 2), LAMBDA p7 :
    With(IF p7 = 0 THEN 0 ELSE CharAt(s, p7, "/"), LAMBDA p8 :
    With(IF p8 = 0 THEN 0 ELSE DigitsAt(s, p8, 4), LAMBDA p9 :
    With(IF p9 = 0 THEN 0 ELSE CharAt(s, p9, "]"), LAMBDA pa :
    With(IF pa = 0 THEN 0 ELSE Find(s, <<":">>, pa), LAMBDA pb :
       \* a blank, then at least one more character, up to the first colon
       IF pa # 0 /\ pb # 0 /\ pb - pa >= 2 /\ s[pa] \in Spaces
       THEN SkipWS(s, pb + 1) ELSE 0))))))))))))

\* `\s*,?\s*` from p
OptComma(s, p) ==
    With(SkipWS(s, p), LAMBDA a :
       IF CharAt(s, a, ",") # 0 THEN SkipWS(s, a + 1) ELSE a)

\* _strip_metadata's first greeting: oiii+|oi|ola|olá|<day greetings>|opa
FirstGreetingAt(s, p) ==
    With(OiiiAt(s, p), LAMBDA o :
       IF o # 0 THEN o
       ELSE FirstAltCI(s, p, << <<<<"o","i">>>>, <<<<"o","l","a">>>>, <<<<"o","l","á">>>> >> \o DayGreetings
                                \o << <<<<"o","p","a">>>> >>, FALSE))

\* s from the end g of a greeting on, its separator skipped (s when g = 0)
DropGreeting(s, g) == IF g # 0 THEN From(s, OptComma(s, g)) ELSE s

\* s without the word that ends at g, when blanks follow it (`^\s*eu\s+`)
DropWord(s, g) ==
    With(IF g = 0 THEN 0 ELSE SkipWS(s, g), LAMBDA e :
       IF g # 0 /\ e > g THEN From(s, e) ELSE s)

_strip_metadata(t) ==
    With(TimestampEnd(t), LAMBDA ts :
    With(Strip(IF ts # 0 THEN From(t, ts) ELSE t), LAMBDA c1 :
    With(DropGreeting(c1, FirstGreetingAt(c1, SkipWS(c1, 1))), LAMBDA c2 :
    With(DropGreeting(c2, FirstAltCI(c2, SkipWS(c2, 1), DayGreetings, FALSE)), LAMBDA c3 :
    With(DropWord(c3, LitAtCI(c3, SkipWS(c3, 1), <<"e","u">>)), LAMBDA c4 :
    With(FirstAltCI(c4, SkipWS(c4, 1), LeadingVerbs, TRUE), LAMBDA g4 :
    With(StripSet(IF g4 # 0 THEN From(c4, g4) ELSE c4, {" ", ",", ".", "-"}), LAMBDA c5 :
       Strip(DropWord(c5, LitAtCI(c5, SkipWS(c5, 1), <<"e">>))))))))))

\* _GREETING_RE.match(t): a greeting, optionally a day greeting, nothing else
GreetingMatch(t) ==
    With(SkipWS(t, 1), LAMBDA p :
    With({e \in {FirstAltCI(t, p, <<a>>, FALSE) :
                            a \in Range(<< <<<<"o","i">>>>, <<<<"o","l","a">>>>, <<<<"o","l","á">>>> >> \o DayGreetings
                                        \o << <<<<"o","p","a">>>>, <<<<"b","i","a">>, <<"n","o","i","t","e">>>> >>)}
                         \cup {OiiiAt(t, p)} : e # 0}, LAMBDA firsts :
    With({e2 \in {FirstAltCI(t, SkipWS(t, e), DayGreetings, FALSE) :
                                e \in {e \in firsts : SkipWS(t, e) > e}} : e2 # 0}, LAMBDA seconds :
       \E e \in firsts \cup seconds : SkipWS(t, e) = Len(t) + 1)))

_cut_context(t) ==
    With(SearchPat(t, CutoffPat, 1), LAMBDA p :
       IF Contains(t, <<"\n">>) THEN t
       ELSE IF p = 0 THEN t
       ELSE Strip(Upto(t, p)))

\* group 1 of _ITEM_START_RE at q, `(<word number>|\d+)\b`: the position
\* after it (0: none)
NumberAt(s, q) ==
    With(FirstAltCI(s, q, WordNumbers, TRUE), LAMBDA w :
    With(SkipSet(s, q, Digits), LAMBDA d :
       IF w # 0 THEN w
       ELSE IF d > q /\ Boundary(s, d) THEN d
       ELSE 0))

\* where group 1 may start for a match of _ITEM_START_RE that starts at p:
\* after ^, \n+, \s+e\s+, \s*,\s* or \s*;\s*, in the order of the alternation
ItemPrefixEnds(s, p) ==
    With(SkipWS(s, p), LAMBDA a :
    With(SkipSet(s, p, {"\n"}), LAMBDA n :
    With(SpacedEAt(s, p), LAMBDA e :
       (IF p = 1 THEN <<p>> ELSE <<>>)
       \o (IF n > p THEN <<n>> ELSE <<>>)
       \o (IF e # 0 THEN <<e>> ELSE <<>>)
       \o (IF a <= Len(s) /\ s[a] \in {",", ";"} THEN <<SkipWS(s, a + 1)>> ELSE <<>>))))

\* the match of _ITEM_START_RE that starts at p: [s1 |-> start of group 1,
\* e |-> end of the match, after `\s*(?:x\s*)?`]; s1 = 0 when there is none
ItemStartAt(s, p) ==
    With(SelectSeq(ItemPrefixEnds(s, p), LAMBDA q : NumberAt(s, q) # 0), LAMBDA qs :
    With(IF qs = <<>> THEN 0 ELSE SkipWS(s, NumberAt(s, qs[1])), LAMBDA a :
       IF qs = <<>> THEN [s1 |-> 0, e |-> 0]
       ELSE [s1 |-> qs[1],
             e  |-> IF LitAtCI(s, a, <<"x">>) # 0 THEN SkipWS(s, a + 1) ELSE a]))

\* _ITEM_START_RE.finditer(s): the starts of group 1 of the matches from p on
RECURSIVE ItemStarts(_, _)
ItemStarts(s, p) ==
    With({q \in p..Len(s) : ItemStartAt(s, q).s1 # 0}, LAMBDA hits :
    With(IF hits = {} THEN [s1 |-> 0, e |-> 0] ELSE ItemStartAt(s, Min(hits)), LAMBDA m :
       IF hits = {} THEN <<>> ELSE <<m.s1>> \o ItemStarts(s, m.e)))

\* a variant that keeps a line with a context keyword when an item starts in it
_is_context_line_unless_marked(t) ==
    GreetingMatch(t) \/ (HasPat(t, ContextPat) /\ ItemStarts(t, 1) = <<>>)

_is_context_line(t) == GreetingMatch(t) \/ HasPat(t, ContextPat)

SegmentStrip == {" ", ",", ";"}

\* the segments of one line that is kept (the loop body of _split_segments)
LineSegments(line) ==
    With(ItemStarts(line, 1), LAMBDA starts :
       IF starts = <<>> THEN <<StripSet(line, SegmentStrip)>>
       ELSE SelectSeq([i \in 1..Len(starts) |->
                          StripSet(SubSeq(line, starts[i],
                                          IF i < Len(starts) THEN starts[i + 1] - 1
                                          ELSE Len(line)),
                                   SegmentStrip)],
                      LAMBDA g : g # <<>>))

RECURSIVE ConcatAll(_)
ConcatAll(ss) == IF ss = <<>> THEN <<>> ELSE Head(ss) \o ConcatAll(Tail(ss))

\* a variant that keeps the greeting and context lines
_split_segments_keeping(t) ==
    With(SplitLines(t), LAMBDA raw :
    With(SelectSeq([i \in 1..Len(raw) |-> Strip(raw[i])], LAMBDA l : l # <<>>), LAMBDA lines :
    With([i \in 1..Len(lines) |-> _strip_metadata(lines[i])], LAMBDA stripped :
    With(SelectSeq(stripped, LAMBDA l : l # <<>>), LAMBDA kept :
       ConcatAll([i \in 1..Len(kept) |-> LineSegments(kept[i])])))))

_split_segments(t) ==
    With(SplitLines(t), LAMBDA raw :
    With(SelectSeq([i \in 1..Len(raw) |-> Strip(raw[i])], LAMBDA l : l # <<>>), LAMBDA lines :
    With([i \in 1..Len(lines) |-> _strip_metadata(lines[i])], LAMBDA stripped :
    With(SelectSeq(stripped, LAMBDA l : l # <<>> /\ ~_is_context_line(l)), LAMBDA kept :
       ConcatAll([i \in 1..Len(kept) |-> LineSegments(kept[i])])))))

\* the word_map of parse_quantity
WordMap ==
    << <<<<"u","m">>, 1>>, <<<<"u","m","a">>, 1>>, <<<<"d","o","i","s">>, 2>>, <<<<"d","u","a","s">>, 2>>, <<<<"t","r","e","s">>, 3>>,
       <<<<"q","u","a","t","r","o">>, 4>>, <<<<"c","i","n","c","o">>, 5>>, <<<<"s","e","i","s">>, 6>>, <<<<"m","e","i","a"," ","d","u","z","i","a">>, 6>>,
       <<<<"s","e","t","e">>, 7>>, <<<<"o","i","t","o">>, 8>>, <<<<"n","o","v","e">>, 9>>, <<<<"d","e","z">>, 10>>, <<<<"o","n","z","e">>, 11>>,
       <<<<"d","o","z","e">>, 12>>, <<<<"u","m","a"," ","d","u","z","i","a">>, 12>> >>

\* the first run of digits of t (extract_numbers(t)[0]); <<>> when there is none
FirstDigits(t) ==
    With({i \in 1..Len(t) : t[i] \in Digits}, LAMBDA ds :
       IF ds = {} THEN <<>>
       ELSE SubSeq(t, Min(ds), SkipSet(t, Min(ds), Digits) - 1))

\* int(float(u)) for the decimal notation digits[.digits] (<<>>: not a float);
\* exponents, inf and nan are not modelled
IntOfFloat(u) ==
    With(SkipSet(u, 1, Digits), LAMBDA a :
    With(IF CharAt(u, a, ".") # 0 THEN SkipSet(u, a + 1, Digits) ELSE a, LAMBDA b :
       IF u # <<>> /\ b = Len(u) + 1 /\ (a > 1 \/ b > a + 1)
       THEN <<IntOf(Upto(u, a))>> ELSE <<>>))

\* parse_quantity (app/utils/text.py); int(float(t)) takes a sign before the
\* decimal notation
parse_quantity(word) ==
    With(normalize_text(word), LAMBDA t :
    With(SelectSeq(WordMap, LAMBDA e : e[1] = t), LAMBDA hit :
    With(IntOfFloat(IF t # <<>> /\ t[1] \in {"+", "-"} THEN Tail(t) ELSE t), LAMBDA f :
    With(FirstDigits(t), LAMBDA ds :
       IF hit # <<>> THEN hit[1][2]
       ELSE IF f # <<>> THEN (IF t[1] = "-" THEN -1 ELSE 1) * f[1]
       ELSE IF ds # <<>> THEN IntOf(ds)
       ELSE 1))))

\* re.match(rf"^({_WORD_NUMBERS}|\d+)?\s*x\b", segment, re.IGNORECASE)
HasX(seg) ==
    With({1} \cup {SkipSet(seg, 1, Digits)}
                    \cup {FirstAltCI(seg, 1, <<a>>, FALSE) : a \in Range(WordNumbers)}, LAMBDA ends :
       \E a \in {SkipWS(seg, e) : e \in ends \ {0}} :
          LitAtCI(seg, a, <<"x">>) # 0 /\ Boundary(seg, a + 1))

\* re.sub(r"\b(e|de)\b$", "", c): c cut at the leftmost of "de" and "e" that
\* ends it
CutTrailingE(c, n) ==
    IF n >= 2 /\ Boundary(c, n - 1) /\ LitAtCI(c, n - 1, <<"d","e">>) # 0 THEN Upto(c, n - 1)
    ELSE IF n >= 1 /\ Boundary(c, n) /\ LitAtCI(c, n, <<"e">>) # 0 THEN Upto(c, n)
    ELSE c

_clean_text(t) ==
    With(CollapseWS(DropChars(StripSet(Strip(t), {",", ";"}), {"(", ")"}), 1), LAMBDA c3 :
       Strip(Strip(CutTrailingE(c3, Len(c3)))))

\* re.split(r"\s+e\s+|,", s): the parts of s from position p on
RECURSIVE SplitParts(_, _)
SplitParts(s, p) ==
    With({q \in p..Len(s) : SpacedEAt(s, q) # 0 \/ s[q] = ","}, LAMBDA hits :
    With(IF hits = {} THEN 0 ELSE Min(hits), LAMBDA q :
    With(IF q = 0 THEN 0 ELSE SpacedEAt(s, q), LAMBDA e :
       IF q = 0 THEN <<From(s, p)>>
       ELSE <<SubSeq(s, p, q - 1)>> \o SplitParts(s, IF e # 0 THEN e ELSE q + 1))))

_split_list(t) ==
    With(IF t = <<>> THEN <<>> ELSE SplitParts(t, 1), LAMBDA parts :
       SelectSeq([i \in 1..Len(parts) |-> _clean_text(parts[i])], LAMBDA c : c # <<>>))

\* one turn of _extract_notes' loop, for the keyword kw
NoteStep(st, kw) ==
    With(Contains(normalize_text(st.cleaned), kw), LAMBDA found :
       IF found
       THEN [notes   |-> Append(st.notes, kw),
             cleaned |-> Strip(SubPat(st.cleaned, Pat(FALSE, << <<kw>> >>), <<>>))]
       ELSE st)

RECURSIVE NoteLoop(_, _)
NoteLoop(st, k) ==
    IF k > Len(NoteKeywords) THEN st
    ELSE With(NoteStep(st, NoteKeywords[k]), LAMBDA next : NoteLoop(next, k + 1))

\* _extract_notes
_extract_notes(t) == NoteLoop([notes |-> <<>>, cleaned |-> t], 1)

SemPat == Pat(TRUE, << <<<<"s","e","m">>>> >>)
ComPat == Pat(TRUE, << <<<<"c","o","m">>>> >>)

\* the lookahead (?=(\bsem\b|\bcom\b|$)) at r
RemovalLook(s, r) ==
    \/ r = Len(s) + 1
    \/ r = Len(s) /\ s[r] = "\n"
    \/ MatchPat(s, r, SemPat) # 0
    \/ MatchPat(s, r, ComPat) # 0

\* [^,]+? continued to r: the least end from r on where the lookahead holds,
\* no comma before it (0: none)
LazyEnd(s, r) ==
    With(Min({q \in r..Len(s) + 1 : RemovalLook(s, q)}), LAMBDA e :
       IF \E q \in r..e - 1 : s[q] = "," THEN 0 ELSE e)

\* the match of \bsem\s+([^,]+?)(?=...) that starts at p: [g |-> start of
\* group 1, e |-> end]; e = 0 when there is none.  \s+ is greedy: the
\* longest run of blanks that leaves the group a match.
RemovalAt(s, p) ==
    With(IF Boundary(s, p) THEN LitAtCI(s, p, <<"s","e","m">>) ELSE 0, LAMBDA a :
    With(IF a = 0 THEN {}
               ELSE {g \in (a + 1)..SkipWS(s, a) :
                        g <= Len(s) /\ s[g] # "," /\ LazyEnd(s, g + 1) # 0}, LAMBDA gs :
       IF gs = {} THEN [g |-> 0, e |-> 0]
       ELSE [g |-> Max(gs), e |-> LazyEnd(s, Max(gs) + 1)]))

\* pattern.finditer(text) and pattern.sub("", text) of _extract_removals:
\* the groups matched, and the text without the matches
RECURSIVE RemovalScan(_, _)
RemovalScan(s, p) ==
    With({q \in p..Len(s) : RemovalAt(s, q).e # 0}, LAMBDA hits :
    With(IF hits = {} THEN 0 ELSE Min(hits), LAMBDA q :
    With(IF q = 0 THEN [g |-> 0, e |-> 0] ELSE RemovalAt(s, q), LAMBDA m :
    With(IF q = 0 THEN [groups |-> <<>>, rest |-> <<>>] ELSE RemovalScan(s, m.e), LAMBDA r :
       IF q = 0 THEN [groups |-> <<>>, rest |-> From(s, p)]
       ELSE [groups |-> <<SubSeq(s, m.g, m.e - 1)>> \o r.groups,
             rest   |-> SubSeq(s, p, q - 1) \o r.rest]))))

\* _extract_removals: [cleaned, removals]
_extract_removals(t) ==
    With(RemovalScan(t, 1), LAMBDA sc :
    With(ConcatAll([i \in 1..Len(sc.groups) |-> _split_list(Strip(sc.groups[i]))]), LAMBDA removals :
       [cleaned  |-> _clean_text(IF removals # <<>> THEN SubSpacedE(sc.rest, 1) ELSE sc.rest),
        removals |-> removals]))

\* ParsedItem; size_hint None is "none"
ParsedItem(raw, quantity, name, additions, removals, notes, additional_only) ==
    [raw |-> raw, quantity |-> quantity, name |-> name, additions |-> additions,
     removals |-> removals, notes |-> notes, is_additional_only |-> additional_only,
     size_hint |-> "none", match_text |-> name]

\* _SEGMENT_RE's match of seg whose digits end at d: ^(\d+)\s*(?:x\s*)?(.*)$
SegmentDigits(seg, d) ==
    With(SkipWS(seg, d), LAMBDA a :
    With(IF LitAtCI(seg, a, <<"x">>) # 0 THEN SkipWS(seg, a + 1) ELSE a, LAMBDA b :
       IF d > 1 /\ ~Contains(From(seg, b), <<"\n">>)
       THEN <<[quantity |-> IntOf(Upto(seg, d)), desc |-> Strip(From(seg, b))]>>
       ELSE <<>>))

\* the leading quantity of a segment: [quantity, desc]
SegmentQuantity(seg) ==
    With(SegmentDigits(seg, SkipSet(seg, 1, Digits)), LAMBDA m :
    With(FirstAltCI(seg, 1, WordNumbers, TRUE), LAMBDA w :
       IF m # <<>> THEN m[1]
       \* _WORD_QTY_RE
       ELSE IF w # 0
       THEN [quantity |-> parse_quantity(Upto(seg, w)), desc |-> Strip(From(seg, w))]
       ELSE [quantity |-> 1, desc |-> Strip(seg)]))

AdicionalPat == Pat(TRUE, << <<<<"a","d","i","c","i","o","n","a","l">>>> >>)

\* base_name and additions of _parse_segment, from the description desc and
\* the position c of its first \bcom\b (0: none)
SplitCom(desc, c) ==
    [base      |-> _clean_text(IF c # 0 THEN Upto(desc, c) ELSE desc),
     additions |-> IF c # 0 THEN _split_list(From(desc, c + 3)) ELSE <<>>]

\* base_name with the "x" of the quantity marker put back:
\* re.match(r"^x\s+", base_name, re.IGNORECASE)
WithX(base, has_x) ==
    IF has_x /\ ~(LitAtCI(base, 1, <<"x">>) # 0 /\ SkipWS(base, 2) > 2)
    THEN Strip(<<"x"," ">> \o base) ELSE base

_parse_segment(segment) ==
    With(Strip(segment), LAMBDA seg :
    With(SegmentQuantity(seg), LAMBDA q :
    With(_extract_notes(q.desc), LAMBDA n :
    With(_extract_removals(Strip(SubPat(n.cleaned, AdicionalPat, <<>>))), LAMBDA r :
    With(SplitCom(r.cleaned, SearchPat(r.cleaned, ComPat, 1)), LAMBDA b :
       ParsedItem(Strip(seg), q.quantity, WithX(b.base, HasX(seg)), b.additions,
                  r.removals, n.notes,
                  HasPat(normalize_text(n.cleaned), AdicionalPat)
                     /\ ~HasPat(Strip(seg), Pat(TRUE, << <<<<"x">>>> >>))))))))

\* a variant that returns only the draft lines that have a name
parse_order_text_named(t) ==
    SelectSeq(IF t = <<>> THEN <<>>
              ELSE [i \in 1..Len(_split_segments(_cut_context(t))) |->
                       _parse_segment(_split_segments(_cut_context(t))[i])],
              LAMBDA it : it.name # <<>>)

parse_order_text(t) ==
    With(IF t = <<>> THEN <<>> ELSE _split_segments(_cut_context(t)), LAMBDA segments :
       [i \in 1..Len(segments) |-> _parse_segment(segments[i])])

----------------------------------------------------------------------------
(* Resolver (app/services/interpreter/resolver.py).                        *)

WordPat(w) == Pat(TRUE, << <<w>> >>)

\* _SIZE_HINT_PATTERNS, with the hint each gives
SizeHintPatterns ==
    << <<Pat(TRUE, << <<<<"1","/","4">>>>, <<<<"u","m">>, <<"q","u","a","r","t","o">>>>, <<<<"p","o","r","c","a","o">>, <<"p","e","q","u","e","n","a">>>>,
                      <<<<"p","o","r","c","a","o">>, <<"p","e","q","u","e","n","a">>>> >>), "1/4">>,
       <<Pat(TRUE, << <<<<"1","/","2">>>>, <<<<"m","e","i","a">>, <<"p","o","r","c","a","o">>>>, <<<<"m","e","i","a">>, <<"p","o","r","c","a","o">>>>,
                      <<<<"m","e","i","a">>>> >>), "1/2">> >>

\* _extract_size_hint; None is "none"
_extract_size_hint(t) ==
    With(SelectSeq(SizeHintPatterns, LAMBDA e : HasPat(t, e[1])), LAMBDA hit :
       IF hit = <<>> THEN "none" ELSE hit[1][2])

\* the end of l(t|itros)?\b when l ends at l, t and it being the ends of
\* the optional t and itros (0: none)
LitresEnd(s, l, t, it) ==
    IF l = 0 THEN 0
    ELSE IF t # 0 /\ Boundary(s, t) THEN t
    ELSE IF it # 0 /\ Boundary(s, it) THEN it
    ELSE IF Boundary(s, l) THEN l
    ELSE 0

\* the match of \b(\d+)\s*l(t|itros)?\b at p: [d |-> end of the digits,
\* e |-> end of the match]; e = 0 when there is none
LitresAt(s, p) ==
    With(IF Boundary(s, p) THEN SkipSet(s, p, Digits) ELSE p, LAMBDA d :
    With(IF d > p THEN LitAtCI(s, SkipWS(s, d), <<"l">>) ELSE 0, LAMBDA l :
       [d |-> d,
        e |-> LitresEnd(s, l, IF l = 0 THEN 0 ELSE LitAtCI(s, l, <<"t">>),
                        IF l = 0 THEN 0 ELSE LitAtCI(s, l, <<"i","t","r","o","s">>))]))

\* re.sub(r"\b(\d+)\s*l(t|itros)?\b", r"\1 litros", s)
RECURSIVE SubLitres(_, _)
SubLitres(s, p) ==
    With({q \in p..Len(s) : LitresAt(s, q).e # 0}, LAMBDA hits :
    With(IF hits = {} THEN [d |-> 0, e |-> 0] ELSE LitresAt(s, Min(hits)), LAMBDA m :
       IF hits = {} THEN From(s, p)
       ELSE SubSeq(s, p, m.d - 1) \o <<" ","l","i","t","r","o","s">> \o SubLitres(s, m.e)))

_compact_spaces(t) == Strip(CollapseWS(t, 1))

\* _dedupe: the first occurrence of each entry, in order
_dedupe(xs) ==
    With({i \in 1..Len(xs) : \A j \in 1..i - 1 : xs[j] # xs[i]}, LAMBDA keep :
       [k \in 1..Cardinality(keep) |-> xs[Nth(keep, k)]])

\* re.sub(r"^x(?=[a-z])", "x ", b, flags=re.IGNORECASE)
XPrefix(b) ==
    IF LitAtCI(b, 1, <<"x">>) # 0 /\ Len(b) >= 2 /\ b[2] \in Lowers \cup Uppers
    THEN <<"x"," ">> \o Tail(b) ELSE b

\* the re.sub calls of _resolve_item between "careca" and the size hints, in
\* order: the pattern, its replacement, whether .strip() follows, and the
\* substring whose presence skips the call (<<>>: none)
Rewrite(pat, rep, strip, unless) == [pat |-> pat, rep |-> rep, strip |-> strip, unless |-> unless]

Rewrites ==
    << Rewrite(Pat(TRUE, << <<<<"c","o","m","p","l","e","t","o","s">>>>, <<<<"c","o","m","p","l","e","t","o">>>>,
                            <<<<"c","o","m","p","l","e","t","a","s">>>>, <<<<"c","o","m","p","l","e","t","a">>>> >>), <<>>, TRUE, <<>>),
       Rewrite(WordPat(<<"b","u","r","g","e","r">>), <<"b","u","r","g","u","e","r">>, FALSE, <<>>),
       Rewrite(Pat(TRUE, << <<<<"x">>, <<"b","u","r","g">>>> >>), <<"x"," ","b","u","r","g","u","e","r">>, FALSE, <<>>),
       Rewrite(WordPat(<<"m","i","g","o","n">>), <<"m","i","g","n","o","n">>, FALSE, <<>>),
       Rewrite(WordPat(<<"e","v","i","l","h","a">>), <<"e","r","v","i","l","h","a">>, FALSE, <<>>),
       Rewrite(WordPat(<<"t","b","m">>), <<>>, FALSE, <<>>),
       Rewrite(WordPat(<<"t","a","m","b","e","m">>), <<>>, FALSE, <<>>),
       Rewrite(WordPat(<<"c","o","c","a">>), <<"c","o","c","a"," ","c","o","l","a">>, FALSE, <<"c","o","c","a"," ","c","o","l","a">>),
       Rewrite(Pat(TRUE, << <<<<"b","a","t","a">>, <<"f","r","i","t","a">>>> >>), <<"b","a","t","a","t","a"," ","f","r","i","t","a">>, FALSE, <<>>) >>

ApplyRewrite(b, r) ==
    IF r.unless # <<>> /\ Contains(b, r.unless) THEN b
    ELSE IF r.strip THEN Strip(SubPat(b, r.pat, r.rep))
    ELSE SubPat(b, r.pat, r.rep)

RECURSIVE ApplyRewrites(_, _)
ApplyRewrites(b, k) ==
    IF k > Len(Rewrites) THEN b
    ELSE With(ApplyRewrite(b, Rewrites[k]), LAMBDA c : ApplyRewrites(c, k + 1))

\* the rewriting of the name by _resolve_item, up to the size hint (lines 37-67);
\* b is the normalized name after XPrefix
ResolveBase(b) ==
    ApplyRewrites(IF Contains(b, <<"c","a","r","e","c","a">>) THEN Strip(Replace(b, <<"c","a","r","e","c","a">>, <<" ">>)) ELSE b, 1)

\* the batata frita size normalization of _resolve_item (lines 73-78)
BatataBase(base) ==
    IF ~Contains(base, <<"b","a","t","a","t","a"," ","f","r","i","t","a">>) THEN base
    ELSE IF Contains(base, <<"t","r","a","d","i","c","i","o","n","a","l">>) THEN <<"b","a","t","a","t","a"," ","f","r","i","t","a"," ","t","r","a","d","i","c","i","o","n","a","l">>
    ELSE <<"b","a","t","a","t","a"," ","f","r","i","t","a">>

\* [normalize_text(a) for a in xs if a]
NormalizeAll(xs) ==
    With(SelectSeq(xs, LAMBDA a : a # <<>>), LAMBDA kept :
       [i \in 1..Len(kept) |-> normalize_text(kept[i])])

\* the removals of _resolve_item (lines 85-92)
NormalizeRemovals(xs) ==
    With(NormalizeAll(xs), LAMBDA ns :
       _dedupe([i \in 1..Len(ns) |-> SubPat(ns[i], WordPat(<<"e","v","i","l","h","a">>), <<"e","r","v","i","l","h","a">>)]))

\* a variant that merges the additions of any line into its match text
MergeAdditions_always(item, base, additions, merge) ==
    [item EXCEPT !.additions  = IF merge THEN <<>> ELSE additions,
                 !.match_text = _compact_spaces(
                     Strip(base \o <<" ">> \o Join(additions, <<" ">>)))]

\* the item with its match text, the additions merged into it for a batata
\* frita (lines 94-99)
MergeAdditions(item, base, additions, merge) ==
    [item EXCEPT !.additions  = IF merge THEN <<>> ELSE additions,
                 !.match_text = _compact_spaces(
                     IF merge THEN Strip(base \o <<" ">> \o Join(additions, <<" ">>)) ELSE base)]

_resolve_item(item) ==
    With(XPrefix(normalize_text(item.name)), LAMBDA b :
    With(ResolveBase(b), LAMBDA base1 :
    With(_extract_size_hint(base1), LAMBDA size_hint :
    With(SubLitres(BatataBase(base1), 1), LAMBDA base3 :
    With(NormalizeAll(item.additions), LAMBDA additions :
       MergeAdditions(
          [item EXCEPT !.removals  = NormalizeRemovals(
                                        IF Contains(b, <<"c","a","r","e","c","a">>)
                                        THEN Append(item.removals, <<"s","a","l","a","d","a"," ","g","e","r","a","l">>)
                                        ELSE item.removals),
                       !.size_hint = IF size_hint # "none" THEN size_hint ELSE item.size_hint],
          base3, additions, Contains(base3, <<"b","a","t","a","t","a"," ","f","r","i","t","a">>) /\ additions # <<>>))))))

resolve_parsed_items(its) == [i \in 1..Len(its) |-> _resolve_item(its[i])]

----------------------------------------------------------------------------
(* Fuzzy search (app/utils/text.py).  fuzz.WRatio of rapidfuzz is outside  *)
(* the repository: on a pair of normalized strings its score, in           *)
(* hundredths, is 0 when either string is empty, 100 when they are equal,  *)
(* and otherwise any of ScoreLevels; a table W holds the scores asked so   *)
(* far, so that the same pair scores the same throughout a run.            *)

ScoreLevels == {50, 60, 90}

\* the score that WRatio must give the pair p (<<>>: any of ScoreLevels)
Forced(p) ==
    IF p[1] = <<>> \/ p[2] = <<>> THEN <<0>>
    ELSE IF p[1] = p[2] THEN <<100>>
    ELSE <<>>

\* the tables that extend W with a score for every pair of `pairs`
Scorings(W, pairs) ==
    With(pairs \ DOMAIN W, LAMBDA new :
    With({p \in new : Forced(p) # <<>>}, LAMBDA forced :
       {W @@ [p \in forced |-> Forced(p)[1]] @@ f : f \in [new \ forced -> ScoreLevels]}))

\* the pairs that a search of `query` among `candidates` scores
ScoredPairs(query, candidates) ==
    {<<normalize_text(query), normalize_text(candidates[i])>> : i \in 1..Len(candidates)}

\* the scores of the query qn against the candidates cn, in their order
Scores(qn, cn, W) == [i \in 1..Len(cn) |-> W[<<qn, cn[i]>>]]

\* process.extractOne on the scores s: the first index that reaches the highest
ExtractOne(s) ==
    With(Max(Range(s)), LAMBDA best :
       Min({i \in 1..Len(s) : s[i] = best}))

\* [normalize_text(c) for c in candidates]
NormalizedCandidates(candidates) ==
    [i \in 1..Len(candidates) |-> normalize_text(candidates[i])]

\* find_best_match: [match, score]; match is <<>> for None, <<candidate>> otherwise;
\* score and threshold in hundredths
find_best_match(query, candidates, threshold, W) ==
    With(Scores(normalize_text(query), NormalizedCandidates(candidates), W), LAMBDA s :
    With(IF candidates = <<>> THEN 0 ELSE ExtractOne(s), LAMBDA index :
       IF candidates = <<>> THEN [match |-> <<>>, score |-> 0]
       ELSE IF s[index] < threshold THEN [match |-> <<>>, score |-> s[index]]
       ELSE [match |-> <<candidates[index]>>, score |-> s[index]]))

\* process.extract on the scores s: the indexes of the `limit` highest, ties
\* in input order
Extract(s, limit) ==
    With([i \in 1..Len(s) |->
                     1 + Cardinality({j \in 1..Len(s) :
                                         s[j] > s[i] \/ (s[j] = s[i] /\ j < i)})], LAMBDA rank :
       [k \in 1..Min({limit, Len(s)}) |-> CHOOSE i \in 1..Len(s) : rank[i] = k])

\* find_matches: the `limit` best candidates by score, ties in input order,
\* of which those at or above the threshold: a list of <<candidate, score>>
find_matches(query, candidates, threshold, limit, W) ==
    With(Scores(normalize_text(query), NormalizedCandidates(candidates), W), LAMBDA s :
    With(IF candidates = <<>> THEN <<>>
                 ELSE SelectSeq(Extract(s, limit), LAMBDA i : s[i] >= threshold), LAMBDA kept :
       [k \in 1..Len(kept) |-> <<candidates[kept[k]], s[kept[k]]>>]))

----------------------------------------------------------------------------
(* Cart schemas (app/core/schemas.py).  A Decimal is an integer number of  *)
(* thousandths; an optional value is <<>> (None) or <<value>>.             *)

CartItemAddition(pdv, nome, quantidade, preco_unitario) ==
    [pdv |-> pdv, nome |-> nome, quantidade |-> quantidade, preco_unitario |-> preco_unitario]

\* the Field constraints of CartItemAddition
CartItemAdditionValid(quantidade, preco_unitario) ==
    quantidade >= 1 /\ quantidade <= 10 /\ preco_unitario >= 0

\* sum(a.preco_unitario * a.quantidade for a in adicionais)
RECURSIVE adicionais_total(_)
adicionais_total(adicionais) ==
    IF adicionais = <<>> THEN 0
    ELSE adicionais[1].preco_unitario * adicionais[1].quantidade
         + adicionais_total(Tail(adicionais))

\* the Field constraints of CartItem: a violation raises ValidationError
CartItemValid(quantidade, preco_unitario, observacoes) ==
    quantidade >= 1 /\ quantidade <= 50 /\ preco_unitario >= 0 /\ Len(observacoes) <= 500

\* CartItem(...) with a total that leaves the additions out
CartItem_without_additions(pdv, nome, quantidade, preco_unitario, adicionais, observacoes) ==
    With(preco_unitario + adicionais_total(adicionais), LAMBDA preco_total_unitario :
       [pdv |-> pdv, nome |-> nome, quantidade |-> quantidade,
        preco_unitario |-> preco_unitario, adicionais |-> adicionais,
        observacoes |-> observacoes,
        preco_total_unitario |-> preco_total_unitario,
        preco_total |-> preco_unitario * quantidade])

\* CartItem(...), with the totals that calculate_totals fills in
CartItem(pdv, nome, quantidade, preco_unitario, adicionais, observacoes) ==
    With(preco_unitario + adicionais_total(adicionais), LAMBDA preco_total_unitario :
       [pdv |-> pdv, nome |-> nome, quantidade |-> quantidade,
        preco_unitario |-> preco_unitario, adicionais |-> adicionais,
        observacoes |-> observacoes,
        preco_total_unitario |-> preco_total_unitario,
        preco_total |-> preco_total_unitario * quantidade])

CartPendency(motivo, texto_original, sugestoes, dados_extras) ==
    [motivo |-> motivo, texto_original |-> texto_original, sugestoes |-> sugestoes,
     dados_extras |-> dados_extras]

----------------------------------------------------------------------------
(* Matcher (app/services/interpreter/matcher.py).  A menu entry is         *)
(* [pdv, parent_pdv, nome_original, price, item_type, fingerprint]; an     *)
(* optional entry is <<>> (None) or <<entry>>.                             *)

\* Python's `a or b` on strings
Or(a, b) == IF a # <<>> THEN a ELSE b

\* [p.get("nome_original", "") for p in products]
Names(products) == [i \in 1..Len(products) |-> products[i].nome_original]

\* a variant that files every addition under every parent
_build_menu_index_flat(menu_index) ==
    With(SelectSeq(menu_index, LAMBDA e : e.item_type = "addition"), LAMBDA adds :
       [products |-> SelectSeq(menu_index, LAMBDA e : e.item_type = "product"),
        additions_by_parent |->
           [pp \in {adds[i].parent_pdv : i \in 1..Len(adds)} |-> adds]])

_build_menu_index(menu_index) ==
    With(SelectSeq(menu_index, LAMBDA e : e.item_type = "addition"), LAMBDA adds :
       [products |-> SelectSeq(menu_index, LAMBDA e : e.item_type = "product"),
        additions_by_parent |->
           [pp \in {adds[i].parent_pdv : i \in 1..Len(adds)} |->
               SelectSeq(adds, LAMBDA e : e.parent_pdv = pp)]])

\* additions_by_parent.get(pdv, [])
GetAdditions(additions_by_parent, pdv) ==
    IF pdv \in DOMAIN additions_by_parent THEN additions_by_parent[pdv] ELSE <<>>

_to_decimal(value) == IF value = <<>> THEN 0 ELSE value[1]

_best_match(query, products, W) ==
    With(IF products = <<>> THEN [match |-> <<>>, score |-> 0]
              ELSE find_best_match(query, Names(products), 60, W), LAMBDA r :
    With(IF r.match = <<>> THEN <<>>
                 ELSE SelectSeq(products, LAMBDA p : p.nome_original = r.match[1]), LAMBDA same :
       IF products = <<>> \/ r.match = <<>> \/ r.match[1] = <<>> \/ same = <<>> THEN <<>>
       ELSE <<same[1]>>))

\* whether normalize_text(nome_original) of p contains one/all of the words
NameHasAny(p, words) ==
    With(normalize_text(p.nome_original), LAMBDA name_norm :
       \E i \in 1..Len(words) : Contains(name_norm, words[i]))
NameHasAll(p, words) ==
    With(normalize_text(p.nome_original), LAMBDA name_norm :
       \A i \in 1..Len(words) : Contains(name_norm, words[i]))

\* `filtered or products`
OrProducts(filtered, products) == IF filtered # <<>> THEN filtered ELSE products

\* a variant that returns what the filter left, even nothing
_filter_by_size_hint_strict(products, size_hint) ==
    With(IF size_hint = "1/4" THEN <<<<"1","/","4">>, <<"1","/","4"," ","p","o","r">>, <<"1","/","4"," ","p","o","r","c","a","o">>>>
                   ELSE IF size_hint = "1/2" THEN <<<<"m","e","i","a">>, <<"1","/","2">>>>
                   ELSE <<>>, LAMBDA tokens :
       SelectSeq(products, LAMBDA p : NameHasAny(p, tokens)))

_filter_by_size_hint(products, size_hint) ==
    With(IF size_hint = "1/4" THEN <<<<"1","/","4">>, <<"1","/","4"," ","p","o","r">>, <<"1","/","4"," ","p","o","r","c","a","o">>>>
                   ELSE IF size_hint = "1/2" THEN <<<<"m","e","i","a">>, <<"1","/","2">>>>
                   ELSE <<>>, LAMBDA tokens :
       OrProducts(SelectSeq(products, LAMBDA p : NameHasAny(p, tokens)), products))

_filter_plain_batata(products) ==
    OrProducts(SelectSeq(products, LAMBDA p :
                   /\ NameHasAll(p, <<<<"b","a","t","a","t","a"," ","f","r","i","t","a">>>>)
                   /\ ~NameHasAny(p, <<<<"b","a","c","o","n">>, <<"q","u","e","i","j","o">>, <<"c","a","l","a","b","r","e","s","a">>, <<"f","r","a","n","g","o">>,
                                       <<"c","h","e","d","d","a","r">>, <<"c","o","r","a","c","a","o">>, <<"c","a","t","u","p","i","r","y">>, <<"m","u","s","s","a","r","e","l","a">>,
                                       <<"t","r","e","s">>>>)),
               products)

\* the products whose fingerprint is that of the query (matcher.py line 92)
ExactProducts(item, products) ==
    With(make_fingerprint(Or(item.match_text, item.name)), LAMBDA query_fp :
       SelectSeq(products, LAMBDA p : p.fingerprint = query_fp))

\* the words of `words` that the normalized query has
Tokens(query_norm, words) == SelectSeq(words, LAMBDA w : Contains(query_norm, w))

\* `_filter_by_size_hint(ps, size_hint)` under `if item.size_hint`
Sized(ps, size_hint) ==
    IF size_hint # "none" THEN _filter_by_size_hint(ps, size_hint) ELSE ps

\* the candidate lists that _match_product hands to _best_match after the
\* exact step, in order (lines 98-145): each is tried when its condition holds
Attempts(query_norm, size_hint, products) ==
    With(Tokens(query_norm, <<<<"b","a","c","o","n">>, <<"q","u","e","i","j","o">>>>), LAMBDA required_tokens :
    With(Contains(query_norm, <<"b","a","t","a","t","a"," ","f","r","i","t","a">>), LAMBDA batata :
    With(SelectSeq(products, LAMBDA p :
                      NameHasAll(p, <<<<"b","a","t","a","t","a"," ","f","r","i","t","a">>>> \o required_tokens)), LAMBDA topped :
    With(SelectSeq(products, LAMBDA p : NameHasAll(p, <<<<"s","u","c","o">>, <<"m","o","r","a","n","g","o">>>>)), LAMBDA suco :
       (IF batata /\ required_tokens # <<>> /\ topped # <<>>
        THEN <<Sized(topped, size_hint)>> ELSE <<>>)
       \o (IF Tokens(query_norm, <<<<"s","u","c","o">>, <<"m","o","r","a","n","g","o">>>>) = <<<<"s","u","c","o">>, <<"m","o","r","a","n","g","o">>>>
              /\ suco # <<>>
           THEN <<suco>> ELSE <<>>)
       \o (IF batata /\ Contains(query_norm, <<"t","r","a","d","i","c","i","o","n","a","l">>)
           THEN <<Sized(_filter_plain_batata(products), size_hint)>> ELSE <<>>)
       \o (IF size_hint # "none" /\ batata
           THEN <<_filter_by_size_hint(products, size_hint)>> ELSE <<>>)
       \o <<products>>))))

\* the first candidate that _best_match finds in the lists of `attempts`
RECURSIVE FirstBest(_, _, _)
FirstBest(query, attempts, W) ==
    With(_best_match(query, Head(attempts), W), LAMBDA candidate :
       IF candidate # <<>> \/ Len(attempts) = 1 THEN candidate
       ELSE FirstBest(query, Tail(attempts), W))

\* _match_product taking the first product of the fingerprint when several have it
_match_product_first_exact(item, products, W) ==
    With(Or(item.match_text, item.name), LAMBDA query :
    With(ExactProducts(item, products), LAMBDA exact :
       IF Len(exact) >= 1 THEN <<exact[1]>>
       ELSE FirstBest(query, Attempts(normalize_text(query), item.size_hint, products), W)))

_match_product(item, products, W) ==
    With(Or(item.match_text, item.name), LAMBDA query :
    With(ExactProducts(item, products), LAMBDA exact :
       IF Len(exact) = 1 THEN <<exact[1]>>
       ELSE FirstBest(query, Attempts(normalize_text(query), item.size_hint, products), W)))

_addition_label(entry) ==
    Strip(Replace(Replace(normalize_text(entry.nome_original),
                          <<"a","d","i","c","i","o","n","a","i","s"," ","n","o"," ","p","r","a","t","o">>, <<>>), <<"a","d","i","c","i","o","n","a","i","s">>, <<>>))

_clean_addition_name(name) ==
    Strip(Replace(Replace(name, <<"A","d","i","c","i","o","n","a","i","s"," ">>, <<>>), <<"A","d","i","c","i","o","n","a","i","s"," ","n","o"," ","P","r","a","t","o"," ">>, <<>>))

Labels(additions) == [i \in 1..Len(additions) |-> _addition_label(additions[i])]

\* the additions whose label has the fingerprint of the text (lines 226-230)
ExactAdditions(text_, additions) ==
    With(make_fingerprint(text_), LAMBDA query_fp :
       SelectSeq(additions, LAMBDA e : make_fingerprint(_addition_label(e)) = query_fp))

_match_addition(text_, additions, W) ==
    With(ExactAdditions(text_, additions), LAMBDA exact :
    With(Labels(additions), LAMBDA labels :
    With(IF additions = <<>> \/ exact # <<>> THEN [match |-> <<>>, score |-> 0]
              ELSE find_best_match(text_, labels, 60, W), LAMBDA r :
    With(IF r.match = <<>> THEN <<>>
                 ELSE SelectSeq(additions, LAMBDA e : _addition_label(e) = r.match[1]), LAMBDA same :
       IF additions = <<>> THEN <<>>
       ELSE IF exact # <<>> THEN <<exact[1]>>
       ELSE IF r.match = <<>> \/ r.match[1] = <<>> \/ same = <<>> THEN <<>>
       ELSE <<same[1]>>))))

\* [m[0] for m in matches]
Firsts(matches) == [k \in 1..Len(matches) |-> matches[k][1]]

_suggest_products(query, products, W) ==
    Firsts(find_matches(query, Names(products), 60, 5, W))

_suggest_additions(query, additions, W) ==
    Firsts(find_matches(query, Labels(additions), 60, 5, W))

\* _pendency_for_additional_only keeping the item's name as the original text
_pendency_for_additional_only_name(item, products, W) ==
    CartPendency("adicional_nao_encontrado", item.name,
                 _suggest_products(item.name, products, W),
                 [quantidade |-> item.quantity, adicional |-> item.name])

_pendency_for_additional_only(item, products, W) ==
    CartPendency("adicional_nao_encontrado", item.raw,
                 _suggest_products(item.name, products, W),
                 [quantidade |-> item.quantity, adicional |-> item.name])

\* _pendency_for_missing_product with the reason of an addition
_pendency_for_missing_product_reason(item, products, W) ==
    CartPendency("adicional_nao_encontrado", item.raw,
                 _suggest_products(Or(item.match_text, item.name), products, W),
                 [quantidade |-> item.quantity])

_pendency_for_missing_product(item, products, W) ==
    CartPendency("produto_nao_encontrado", item.raw,
                 _suggest_products(Or(item.match_text, item.name), products, W),
                 [quantidade |-> item.quantity])

\* the CartItemAddition of _match_additions for the matched entry
MatchedAddition(matched) ==
    CartItemAddition(matched.pdv, _clean_addition_name(matched.nome_original), 1,
                     _to_decimal(matched.price))

\* the pendency of _match_additions for a text that matched no entry
MissingAddition(addition_text, additions, product, W) ==
    CartPendency("adicional_nao_encontrado", addition_text,
                 _suggest_additions(addition_text, additions, W),
                 [produto_base |-> product.nome_original])

\* _match_additions skipping the additions that found no entry
_match_additions_skipping(item, additions, pends, product, W) ==
    With([i \in 1..Len(item.additions) |->
                        _match_addition(item.additions[i], additions, W)], LAMBDA matched :
    With(SelectSeq([i \in 1..Len(matched) |-> i], LAMBDA i : matched[i] # <<>>), LAMBDA hit :
       [results    |-> [k \in 1..Len(hit) |-> MatchedAddition(matched[hit[k]][1])],
        pendencies |-> pends]))

\* _match_additions: [results, pendencies], pendencies being the caller's
\* list `pends` with one pendency appended per addition that found no entry
_match_additions(item, additions, pends, product, W) ==
    With([i \in 1..Len(item.additions) |->
                        _match_addition(item.additions[i], additions, W)], LAMBDA matched :
    With(SelectSeq([i \in 1..Len(matched) |-> i], LAMBDA i : matched[i] # <<>>), LAMBDA hit :
    With(SelectSeq([i \in 1..Len(matched) |-> i], LAMBDA i : matched[i] = <<>>), LAMBDA miss :
       [results    |-> [k \in 1..Len(hit) |-> MatchedAddition(matched[hit[k]][1])],
        pendencies |-> pends \o
            [k \in 1..Len(miss) |->
                MissingAddition(item.additions[miss[k]], additions, product, W)]])))

_build_observacoes(item) ==
    LET parts == (IF item.removals # <<>> THEN <<<<"S","e","m",":"," ">> \o Join(item.removals, <<","," ">>)>>
                  ELSE <<>>)
                 \o (IF item.notes # <<>> THEN <<<<"O","b","s",":"," ">> \o Join(item.notes, <<","," ">>)>>
                     ELSE <<>>)
    IN Join(parts, <<" ","|"," ">>)

\* _compute_confidence without the floor
_compute_confidence_unbounded(pends) == 10 - 2 * Len(pends)

\* max(0.1, 1.0 - 0.2 * count), in tenths
_compute_confidence(pends) == Max({1, 10 - 2 * Len(pends)})

\* the pairs that the loop body scores for the product of `item`: none when
\* the fingerprint alone selects it
ProductPairs(item, products) ==
    IF item.is_additional_only THEN ScoredPairs(item.name, Names(products))
    ELSE IF Len(ExactProducts(item, products)) = 1 THEN {}
    ELSE ScoredPairs(Or(item.match_text, item.name), Names(products))

\* the pairs that _match_additions scores against the list `additions`
AdditionPairs(item, additions) ==
    UNION {IF ExactAdditions(item.additions[i], additions) # <<>> THEN {}
           ELSE ScoredPairs(item.additions[i], Labels(additions)) :
           i \in 1..Len(item.additions)}

\* the score tables after the loop body has matched the additions of `item`,
\* its product matched under W1
AdditionScorings(item, index, product, W1) ==
    IF product = <<>> THEN {W1}
    ELSE Scorings(W1, AdditionPairs(item,
                          GetAdditions(index.additions_by_parent, product[1].pdv)))

\* the score tables after the loop body has run on `item`, starting from W
LineScorings(item, menu_index, W) ==
    With(_build_menu_index(menu_index), LAMBDA index :
       UNION {AdditionScorings(item, index,
                               IF item.is_additional_only THEN <<>>
                               ELSE _match_product(item, index.products, W1),
                               W1) :
              W1 \in Scorings(W, ProductPairs(item, index.products))})

\* the state of the loop of match_items after one item: [interpreted_items,
\* pendencies, raised, product], raised when CartItem(...) raises, product
\* the one selected for the item (<<>> when none is)
Outcome(interpreted_items, pends, raised, product) ==
    [interpreted_items |-> interpreted_items, pendencies |-> pends,
     raised |-> raised, product |-> product]

\* lines 49-60: the cart item of `item` and `product`, `matched` being what
\* _match_additions returned and left in the pendencies
AddToCart(item, product, matched, observacoes, interpreted_items) ==
    IF \/ ~CartItemValid(item.quantity, _to_decimal(product.price), observacoes)
       \/ \E k \in 1..Len(matched.results) :
             ~CartItemAdditionValid(matched.results[k].quantidade,
                                    matched.results[k].preco_unitario)
    THEN Outcome(interpreted_items, matched.pendencies, TRUE, <<product>>)
    ELSE Outcome(Append(interpreted_items,
                        CartItem(product.pdv, product.nome_original, item.quantity,
                                 _to_decimal(product.price), matched.results, observacoes)),
                 matched.pendencies, FALSE, <<product>>)

\* the loop body passing over a line whose product is not found
LoopBody_passing(item, menu_index, interpreted_items, pends, W) ==
    With(_build_menu_index(menu_index), LAMBDA index :
    With(IF item.is_additional_only THEN <<>>
                    ELSE _match_product(item, index.products, W), LAMBDA product :
       IF item.is_additional_only
       THEN Outcome(interpreted_items,
                    Append(pends, _pendency_for_additional_only(item, index.products, W)),
                    FALSE, <<>>)
       ELSE IF product = <<>>
       THEN Outcome(interpreted_items, pends, FALSE, <<>>)
       ELSE AddToCart(item, product[1],
                      _match_additions(item,
                          GetAdditions(index.additions_by_parent, product[1].pdv),
                          pends, product[1], W),
                      _build_observacoes(item), interpreted_items)))

\* the body of the loop of match_items (lines 39-60) on one item
LoopBody(item, menu_index, interpreted_items, pends, W) ==
    With(_build_menu_index(menu_index), LAMBDA index :
    With(IF item.is_additional_only THEN <<>>
                    ELSE _match_product(item, index.products, W), LAMBDA product :
       IF item.is_additional_only
       THEN Outcome(interpreted_items,
                    Append(pends, _pendency_for_additional_only(item, index.products, W)),
                    FALSE, <<>>)
       ELSE IF product = <<>>
       THEN Outcome(interpreted_items,
                    Append(pends, _pendency_for_missing_product(item, index.products, W)),
                    FALSE, <<>>)
       ELSE AddToCart(item, product[1],
                      _match_additions(item,
                          GetAdditions(index.additions_by_parent, product[1].pdv),
                          pends, product[1], W),
                      _build_observacoes(item), interpreted_items)))

\* the loop of match_items from item k on, stopping where the body raises
RECURSIVE MatchLoop(_, _, _, _, _)
MatchLoop(its, menu_index, acc, k, W) ==
    IF acc.raised \/ k > Len(its) THEN acc
    ELSE With(LoopBody(its[k], menu_index, acc.interpreted_items, acc.pendencies, W),
              LAMBDA next : MatchLoop(its, menu_index, next, k + 1, W))

\* match_items: the InterpretedOrder [items, pendencies, raw_text, confidence],
\* with `raised` set when the call raises instead of returning
match_items(its, menu_index, raw_text, W) ==
    With(MatchLoop(its, menu_index, Outcome(<<>>, <<>>, FALSE, <<>>), 1, W), LAMBDA r :
       [items |-> r.interpreted_items, pendencies |-> r.pendencies, raw_text |-> raw_text,
        confidence |-> _compute_confidence(r.pendencies), raised |-> r.raised])

(* Specifications.                                                         *)

\* the most lines of a message
MaxLines == 2

\* the lines that messages are made of
OrderLines ==
    {<<"1"," ","x"," ","g","a","l","i","n","h","a"," ","c","o","m"," ","b","a","c","o","n">>, <<"2"," ","m","a","i","o","n","e","s","e"," ","a","d","i","c","i","o","n","a","l">>, <<"0"," ","c","o","c","a">>, <<"c","o","c","a">>,
     <<"1"," ","c","o","m","p","l","e","t","o">>, <<"d","o","i","s"," ","x"," ","e","g","g"," ","c","o","m"," ","m","i","l","h","o"," ","e"," ","q","u","e","i","j","o">>, <<"1"," ","b","a","t","a","t","a"," ","f","r","i","t","a"," ","1","/","2">>,
     <<"1"," ","b","a","t","a","t","a"," ","f","r","i","t","a"," ","c","o","m"," ","b","a","c","o","n">>, <<"o","i">>, <<"6","0"," ","c","o","c","a">>, <<"1"," ","c","o","c","a"," ","c","o","l","a"," ","a","d","i","c","i","o","n","a","l">>,
     <<"p","i","x">>, <<"r","u","a"," ","b",","," ","1"," ","c","o","c","a">>, <<"2">>, <<"1"," ","a","d","i","c","i","o","n","a","l">>,
     <<"1"," ","x"," ","g","a","l","i","n","h","a"," ","c","a","r","e","c","a"," ","c","o","m"," ","b","a","c","o","n",","," ","b","a","c","o","n"," ","s","e","m"," ","s","a","l","a","d","a"," ","g","e","r","a","l">>,
     <<"1"," ","x"," ","g","a","l","i","n","h","a"," ","c","o","m"," ","b","a","c","o","n"," ","e"," ","c","h","e","d","d","a","r">>}

\* the messages of several lines, as lists of lines
LongMessages ==
    {<<<<"2"," ","m","a","i","o","n","e","s","e"," ","a","d","i","c","i","o","n","a","l">>, <<"1"," ","x"," ","g","a","l","i","n","h","a"," ","c","o","m"," ","b","a","c","o","n">>>>,
     <<<<"1"," ","c","o","m","p","l","e","t","o">>, <<"0"," ","c","o","c","a">>>>,
     <<<<"0"," ","c","o","c","a">>, <<"1"," ","c","o","m","p","l","e","t","o">>>>,
     <<<<"o","i">>, <<"c","o","c","a">>>>,
     <<<<"1"," ","b","a","t","a","t","a"," ","f","r","i","t","a"," ","1","/","2">>, <<"c","o","c","a">>>>,
     <<<<"c","o","c","a">>, <<"2"," ","m","a","i","o","n","e","s","e"," ","a","d","i","c","i","o","n","a","l">>>>,
     <<<<"d","o","i","s"," ","x"," ","e","g","g"," ","c","o","m"," ","m","i","l","h","o"," ","e"," ","q","u","e","i","j","o">>, <<"c","o","c","a">>>>,
     <<<<"1"," ","c","o","c","a"," ","c","o","m"," ","o","v","o",","," ","a","l","h","o",","," ","u","v","a"," ","e"," ","k","i","w","i">>, <<"1"," ","c","o","c","a"," ","c","o","l","a"," ","a","d","i","c","i","o","n","a","l">>>>,
     <<<<"c","o","c","a">>, <<"1"," ","c","o","c","a"," ","c","o","l","a"," ","a","d","i","c","i","o","n","a","l">>, <<"6","0"," ","c","o","c","a">>>>,
     <<<<"o","i">>, <<"1"," ","c","o","m","p","l","e","t","o">>, <<"o","i">>>>,
     <<<<"r","u","a"," ","b",","," ","1"," ","c","o","c","a">>, <<"1"," ","c","o","m","p","l","e","t","o">>>>,
     <<<<"2">>, <<"1"," ","c","o","m","p","l","e","t","o">>>>,
     <<<<"1"," ","b","a","t","a","t","a"," ","f","r","i","t","a"," ","c","o","m"," ","b","a","c","o","n">>, <<"2"," ","b","a","t","a","t","a"," ","f","r","i","t","a">>>>,
     <<<<"1"," ","c","o","c","a"," ","c","o","m"," ","g","e","l","o">>, <<"2"," ","c","o","c","a"," ","s","e","m"," ","g","e","l","o">>>>}

\* the messages: the empty one, every single line, and the lists of
\* LongMessages of at most MaxLines lines, one line per line of text
Messages ==
    {Join(ls, <<"\n">>) : ls \in {<<>>} \cup {<<l>> : l \in OrderLines}
                              \cup {m \in LongMessages : Len(m) <= MaxLines}}

Entry(pdv, parent_pdv, nome_original, price, item_type, fingerprint) ==
    [pdv |-> pdv, parent_pdv |-> parent_pdv, nome_original |-> nome_original,
     price |-> price, item_type |-> item_type, fingerprint |-> fingerprint]

\* the menu snapshots (rows of v_menu_search_index); prices in thousandths
Snapshots ==
    {<<>>,
     <<Entry("101", "None", <<"X"," ","G","a","l","i","n","h","a">>, <<25000>>, "product", <<"x","g","a","l","i","n","h","a">>),
       Entry("201", "101", <<"A","d","i","c","i","o","n","a","i","s"," ","B","a","c","o","n">>, <<4500>>, "addition", <<"a","d","i","c","i","o","n","a","i","s","b","a","c","o","n">>),
       Entry("202", "101", <<"M","i","l","h","o">>, <<>>, "addition", <<"m","i","l","h","o">>),
       Entry("102", "None", <<"C","o","c","a"," ","C","o","l","a">>, <<5995>>, "product", <<"c","o","c","a","c","o","l","a">>),
       Entry("103", "None", <<"C","o","m","p","l","e","t","o">>, <<18000>>, "product", <<"c","o","m","p","l","e","t","o">>),
       Entry("299", "999", <<"C","h","e","d","d","a","r">>, <<3000>>, "addition", <<"c","h","e","d","d","a","r">>),
       Entry("211", "103", <<"A","d","i","c","i","o","n","a","i","s"," ","n","o"," ","P","r","a","t","o"," ","C","h","e","d","d","a","r">>, <<5000>>, "addition",
             <<"a","d","i","c","i","o","n","a","i","s","n","o","p","r","a","t","o","c","h","e","d","d","a","r">>)>>,
     <<Entry("301", "None", <<"B","a","t","a","t","a"," ","F","r","i","t","a">>, <<20000>>, "product", <<"b","a","t","a","t","a","f","r","i","t","a">>),
       Entry("303", "None", <<"C","o","c","a","-","C","o","l","a">>, <<6500>>, "product", <<"c","o","c","a","c","o","l","a">>),
       Entry("302", "None", <<"C","o","c","a"," ","C","o","l","a">>, <<6000>>, "product", <<"c","o","c","a","c","o","l","a">>)>>,
     <<Entry("401", "None", <<"B","a","t","a","t","a"," ","F","r","i","t","a">>, <<20000>>, "product", <<"b","a","t","a","t","a","f","r","i","t","a">>),
       Entry("402", "None", <<"1","/","2"," ","B","a","t","a","t","a"," ","F","r","i","t","a">>, <<12000>>, "product", <<"1","2","b","a","t","a","t","a","f","r","i","t","a">>),
       Entry("403", "None", <<"B","a","t","a","t","a"," ","F","r","i","t","a"," ","B","a","c","o","n">>, <<26000>>, "product", <<"b","a","t","a","t","a","f","r","i","t","a","b","a","c","o","n">>)>>}

(* The pipeline parse_order_text -> resolve_parsed_items -> match_items on  *)
(* one message and one snapshot; match_items advances one item per step.   *)

Init ==
    /\ text \in Messages /\ menu \in Snapshots
    /\ wratio = <<>> /\ pc = "start"
    /\ items = <<>> /\ idx = 0 /\ cart = <<>> /\ pendencies = <<>>
    /\ confidence = 10 /\ call = <<>>
    /\ results = <<>> /\ itens = <<>> /\ fsm = <<>>

Parse ==
    /\ pc = "start"
    /\ items' = parse_order_text(text)
    /\ pc' = "parsed"
    /\ UNCHANGED <<text, menu, wratio, idx, cart, pendencies, confidence, call, results, itens, fsm>>

Resolve ==
    /\ pc = "parsed"
    /\ items' = resolve_parsed_items(items)
    /\ pc' = "resolved"
    /\ UNCHANGED <<text, menu, wratio, idx, cart, pendencies, confidence, call, results, itens, fsm>>

\* a variant whose interpreted_items and pendencies outlive the call
MatchStart_keeping ==
    /\ pc = "resolved"
    /\ idx' = 0 /\ cart' = cart /\ pendencies' = pendencies
    /\ pc' = "matching"
    /\ UNCHANGED <<text, menu, wratio, items, confidence, call, results, itens, fsm>>

\* match_items up to the loop (lines 34-37)
MatchStart ==
    /\ pc = "resolved"
    /\ idx' = 0 /\ cart' = <<>> /\ pendencies' = <<>>
    /\ pc' = "matching"
    /\ UNCHANGED <<text, menu, wratio, items, confidence, call, results, itens, fsm>>

\* the loop body has run on items[idx + 1] with the outcome r, under the table W
LoopStep(r, W) ==
    /\ wratio' = W
    /\ cart' = r.interpreted_items
    /\ pendencies' = r.pendencies
    /\ idx' = IF r.raised THEN idx ELSE idx + 1
    /\ pc' = IF r.raised THEN "raised" ELSE "matching"
    /\ UNCHANGED <<text, menu, items, confidence, call, results, itens, fsm>>

\* the item of the loop's next turn
Line == items[idx + 1]

\* the loop body ends with the outcome r without raising, a product selected
\* or not as `found` tells
Continues(r, W, found) ==
    /\ ~r.raised
    /\ (r.product # <<>>) = found
    /\ LoopStep(r, W)

\* the loop body raises with the outcome r
Raises(r, W) == r.raised /\ LoopStep(r, W)

\* lines 40-42
MatchAdditionalOnly ==
    /\ pc = "matching" /\ idx < Len(items)
    /\ Line.is_additional_only
    /\ \E W \in LineScorings(Line, menu, wratio) :
          Continues(LoopBody(Line, menu, cart, pendencies, W), W, FALSE)

\* lines 44-47
MatchMissingProduct ==
    /\ pc = "matching" /\ idx < Len(items)
    /\ ~Line.is_additional_only
    /\ \E W \in LineScorings(Line, menu, wratio) :
          Continues(LoopBody(Line, menu, cart, pendencies, W), W, FALSE)

\* lines 49-60, CartItem(...) accepting its arguments
MatchCartItem ==
    /\ pc = "matching" /\ idx < Len(items)
    /\ ~Line.is_additional_only
    /\ \E W \in LineScorings(Line, menu, wratio) :
          Continues(LoopBody(Line, menu, cart, pendencies, W), W, TRUE)

\* lines 49-59, CartItem(...) raising ValidationError
MatchRaises ==
    /\ pc = "matching" /\ idx < Len(items)
    /\ ~Line.is_additional_only
    /\ \E W \in LineScorings(Line, menu, wratio) :
          Raises(LoopBody(Line, menu, cart, pendencies, W), W)

\* lines 62-68
MatchReturn ==
    /\ pc = "matching" /\ idx = Len(items)
    /\ confidence' = _compute_confidence(pendencies)
    /\ pc' = "done"
    /\ UNCHANGED <<text, menu, wratio, items, idx, cart, pendencies, call, results, itens, fsm>>

Next ==
    \/ Parse
    \/ Resolve
    \/ MatchStart
    \/ MatchAdditionalOnly
    \/ MatchMissingProduct
    \/ MatchCartItem
    \/ MatchRaises
    \/ MatchReturn

Spec == Init /\ [][Next]_vars
----------------------------------------------------------------------------
(* find_best_match on its own: any query, candidate list and threshold.    *)

\* the queries, the candidate strings and the thresholds (in hundredths) of
\* the calls
Queries == {<<>>, <<"A","b"," ">>, <<"c","d">>}

Candidates == {<<"a","c">>, <<"A","B",".">>}

CandidateLists ==
    {<<>>} \cup {<<c>> : c \in Candidates}
           \cup {<<c, d>> : c \in Candidates, d \in Candidates}

Thresholds == {60, 90}

InitBM ==
    /\ text = <<>> /\ menu = <<>>
    /\ wratio = <<>> /\ pc = "start"
    /\ items = <<>> /\ idx = 0 /\ cart = <<>> /\ pendencies = <<>>
    /\ confidence = 10 /\ call = <<>>
    /\ results = <<>> /\ itens = <<>> /\ fsm = <<>>

\* one call of find_best_match, its arguments and result kept in `call`
FindBestMatch ==
    \E query \in Queries, candidates \in CandidateLists, threshold \in Thresholds :
       \E W \in Scorings(wratio, ScoredPairs(query, candidates)) :
          /\ wratio' = W
          /\ call' = <<[query |-> query, candidates |-> candidates,
                        threshold |-> threshold,
                        result |-> find_best_match(query, candidates, threshold, W)]>>
          /\ UNCHANGED <<text, menu, pc, items, idx, cart, pendencies, confidence,
                       results, itens, fsm>>

NextBM == FindBestMatch

SpecBM == InitBM /\ [][NextBM]_vars

----------------------------------------------------------------------------
(* The pipeline called again and again by one process, as run_test does    *)
(* for one test after another: any text and snapshot at each call.         *)

\* the most pipeline runs of a process
MaxRuns == 3

\* the texts and the snapshots of the runs
RunTexts ==
    {<<"c","o","c","a","\n","1"," ","a","d","i","c","i","o","n","a","l">>,
     <<"6","0"," ","c","o","c","a">>}

RunSnapshots == {m \in Snapshots : m = <<>> \/ "301" \in {m[i].pdv : i \in 1..Len(m)}}

InitAgain ==
    /\ text \in RunTexts /\ menu \in RunSnapshots
    /\ wratio = <<>> /\ pc = "start"
    /\ items = <<>> /\ idx = 0 /\ cart = <<>> /\ pendencies = <<>>
    /\ confidence = 10 /\ call = <<>>
    /\ results = <<>> /\ itens = <<>> /\ fsm = <<>>

\* what the run has given its caller: the InterpretedOrder, or the exception
Returned ==
    IF pc = "raised" THEN [raised |-> TRUE]
    ELSE [raised |-> FALSE, items |-> cart, pendencies |-> pendencies,
          raw_text |-> text, confidence |-> confidence]

\* the run has ended and the caller starts the next one; the locals of the
\* run that ended are dead, each is set anew by the step that creates it
RunAgain ==
    /\ pc \in {"done", "raised"} /\ Len(results) < MaxRuns
    /\ results' = Append(results, [text |-> text, menu |-> menu, outcome |-> Returned])
    /\ text' \in RunTexts /\ menu' \in RunSnapshots
    /\ pc' = "start"
    /\ UNCHANGED <<wratio, items, idx, cart, pendencies, confidence, call, itens, fsm>>

NextAgain ==
    \/ Parse
    \/ Resolve
    \/ MatchStart
    \/ MatchAdditionalOnly
    \/ MatchMissingProduct
    \/ MatchCartItem
    \/ MatchRaises
    \/ MatchReturn
    \/ RunAgain

SpecAgain == InitAgain /\ [][NextAgain]_vars

----------------------------------------------------------------------------

(* CartState.add_item (app/core/schemas.py) on its own: any cart item added *)
(* to the running cart.                                                    *)

\* {(a.pdv, a.quantidade) for a in item.adicionais}
Adds(item) == {<<item.adicionais[i].pdv, item.adicionais[i].quantidade>> : i \in 1..Len(item.adicionais)}

\* the entries of the loop that pass both tests (lines 162-167)
Mergeable(its, item) ==
    {k \in 1..Len(its) : /\ its[k].pdv = item.pdv /\ its[k].observacoes = item.observacoes
                         /\ Adds(its[k]) = Adds(item)}

\* a variant that groups by product and notes, whatever the additions
add_item_by_product(its, item) ==
    With({k \in 1..Len(its) : its[k].pdv = item.pdv /\ its[k].observacoes = item.observacoes}, LAMBDA same :
    With(IF same = {} THEN 0 ELSE Min(same), LAMBDA k :
       IF k = 0 THEN Append(its, item)
       ELSE [its EXCEPT ![k].quantidade = @ + item.quantidade,
                        ![k].preco_total = its[k].preco_total_unitario * (its[k].quantidade + item.quantidade)]))

\* self.itens after add_item(item)
add_item(its, item) ==
    With(Mergeable(its, item), LAMBDA same :
    With(IF same = {} THEN 0 ELSE Min(same), LAMBDA k :
       IF k = 0 THEN Append(its, item)
       ELSE [its EXCEPT ![k].quantidade = @ + item.quantidade,
                        ![k].preco_total = its[k].preco_total_unitario * (its[k].quantidade + item.quantidade)]))

\* the most units a cart holds
MaxUnits == 3

\* the additions, the addition lists and the cart items of the calls
Bacon(quantidade) == CartItemAddition("201", <<"B","a","c","o","n">>, quantidade, 4500)

AdditionLists == {<<>>, <<Bacon(1)>>, <<Bacon(1), Bacon(1)>>, <<Bacon(2)>>}

CartItems ==
    {CartItem("101", <<"X"," ","G","a","l","i","n","h","a">>, q, 25000, adds, obs) :
        q \in 1..2, adds \in AdditionLists, obs \in {<<>>, <<"<<",">>e","m",":"," ","m","i","l","h","o">>}}
    \cup {CartItem("102", <<"C","o","c","a"," ","C","o","l","a">>, 1, 5995, <<>>, <<>>)}

RECURSIVE Units(_)
Units(its) == IF its = <<>> THEN 0 ELSE its[1].quantidade + Units(Tail(its))

\* CartState() and CartState(itens=[...]) of two entries alike
InitCart ==
    /\ text = <<>> /\ menu = <<>>
    /\ wratio = <<>> /\ pc = "start"
    /\ items = <<>> /\ idx = 0 /\ cart = <<>> /\ pendencies = <<>>
    /\ confidence = 10 /\ call = <<>>
    /\ results = <<>> /\ fsm = <<>>
    /\ itens \in {<<>>} \cup {<<c, c>> : c \in {c \in CartItems : c.pdv = "102"}}

\* one call of add_item, its argument kept in `call`
AddItem ==
    \E item \in CartItems :
       /\ Units(itens) + item.quantidade <= MaxUnits
       /\ itens' = add_item(itens, item)
       /\ call' = <<[item |-> item]>>
       /\ UNCHANGED <<text, menu, wratio, pc, items, idx, cart, pendencies, confidence,
                      results, fsm>>

NextCart == AddItem

SpecCart == InitCart /\ [][NextCart]_vars

\* CartState.subtotal: sum(item.preco_total or Decimal(0) for item in self.itens)
RECURSIVE subtotal(_)
subtotal(its) == IF its = <<>> THEN 0 ELSE its[1].preco_total + subtotal(Tail(its))

\* the first entry of the product, 0 when there is none
FirstOf(its, pdv) ==
    With({k \in 1..Len(its) : its[k].pdv = pdv}, LAMBDA same :
       IF same = {} THEN 0 ELSE Min(same))

\* self.itens after remove_item(pdv, quantidade)
remove_item(its, pdv, quantidade) ==
    With(FirstOf(its, pdv), LAMBDA i :
       IF i = 0 THEN its
       ELSE IF its[i].quantidade <= quantidade
            THEN SubSeq(its, 1, i - 1) \o SubSeq(its, i + 1, Len(its))
       ELSE [its EXCEPT ![i].quantidade = @ - quantidade,
                        ![i].preco_total = its[i].preco_total_unitario
                                           * (its[i].quantidade - quantidade)])

\* one call of remove_item, its arguments and what it returns kept in `call`
RemoveItem ==
    \E pdv \in {"101", "102", "103"}, quantidade \in 1..2 :
       /\ itens' = remove_item(itens, pdv, quantidade)
       /\ call' = <<[pdv |-> pdv, quantidade |-> quantidade,
                     returns |-> FirstOf(itens, pdv) # 0]>>
       /\ UNCHANGED <<text, menu, wratio, pc, items, idx, cart, pendencies, confidence,
                      results, fsm>>

NextCartState == AddItem \/ RemoveItem

\* a cart under add_item and remove_item calls
SpecCartState == InitCart /\ [][NextCartState]_vars

----------------------------------------------------------------------------

(* The conversation FSM (app/core/fsm.py): transition() called with any     *)
(* target, from any initial state.                                         *)

ConversationState ==
    {"GREETING", "COLLECTING_ITEMS", "CONFIRMING_ITEMS", "RESOLVING_PENDING",
     "COLLECTING_DELIVERY_TYPE", "COLLECTING_ADDRESS", "CONFIRMING_ADDRESS",
     "COLLECTING_PAYMENT", "COLLECTING_PAYMENT_DETAILS", "AWAITING_PIX_PROOF",
     "CONFIRMING_ORDER", "ORDER_SENT", "CANCELLED"}

\* StateRequirements: the fields that say what a state needs, where it
\* leads and whether it ends the conversation
StateRequirements(required_fields, allowed_transitions, is_terminal) ==
    [required_fields |-> required_fields, allowed_transitions |-> allowed_transitions,
     is_terminal |-> is_terminal]

STATE_MACHINE ==
    [s \in ConversationState |->
       CASE s = "GREETING" ->
               StateRequirements(<<>>, <<"COLLECTING_ITEMS", "CANCELLED">>, FALSE)
         [] s = "COLLECTING_ITEMS" ->
               StateRequirements(<<>>,
                                 <<"CONFIRMING_ITEMS", "RESOLVING_PENDING", "CANCELLED">>, FALSE)
         [] s = "CONFIRMING_ITEMS" ->
               StateRequirements(<<"cart_has_items">>,
                                 <<"COLLECTING_ITEMS", "COLLECTING_DELIVERY_TYPE", "CANCELLED">>,
                                 FALSE)
         [] s = "RESOLVING_PENDING" ->
               StateRequirements(<<"cart_has_pendencies">>,
                                 <<"COLLECTING_ITEMS", "CONFIRMING_ITEMS", "CANCELLED">>, FALSE)
         [] s = "COLLECTING_DELIVERY_TYPE" ->
               StateRequirements(<<"items_confirmed">>,
                                 <<"COLLECTING_ADDRESS", "COLLECTING_PAYMENT", "COLLECTING_ITEMS",
                                   "CANCELLED">>, FALSE)
         [] s = "COLLECTING_ADDRESS" ->
               StateRequirements(<<"delivery_type">>,
                                 <<"CONFIRMING_ADDRESS", "CANCELLED">>, FALSE)
         [] s = "CONFIRMING_ADDRESS" ->
               StateRequirements(<<"delivery_address">>,
                                 <<"COLLECTING_ADDRESS", "COLLECTING_PAYMENT", "CANCELLED">>, FALSE)
         [] s = "COLLECTING_PAYMENT" ->
               StateRequirements(<<"delivery_type">>,
                                 <<"COLLECTING_PAYMENT_DETAILS", "CONFIRMING_ORDER", "CANCELLED">>,
                                 FALSE)
         [] s = "COLLECTING_PAYMENT_DETAILS" ->
               StateRequirements(<<"payment_method">>,
                                 <<"AWAITING_PIX_PROOF", "CONFIRMING_ORDER", "COLLECTING_PAYMENT",
                                   "CANCELLED">>, FALSE)
         [] s = "AWAITING_PIX_PROOF" ->
               StateRequirements(<<"payment_method">>,
                                 <<"CONFIRMING_ORDER", "COLLECTING_PAYMENT", "CANCELLED">>, FALSE)
         [] s = "CONFIRMING_ORDER" ->
               StateRequirements(<<"items_confirmed", "delivery_type", "payment_method">>,
                                 <<"ORDER_SENT", "COLLECTING_ITEMS", "COLLECTING_PAYMENT",
                                   "CANCELLED">>, FALSE)
         [] s = "ORDER_SENT" -> StateRequirements(<<"order_confirmed">>, <<>>, TRUE)
         [] s = "CANCELLED" -> StateRequirements(<<>>, <<>>, TRUE)]

StateTransition(from_state, to_state, reason, data) ==
    [from_state |-> from_state, to_state |-> to_state, reason |-> reason,
     data |-> data, timestamp |-> <<>>]

\* FSM(initial_state, state_data); a dict is a function, {} and None are <<>>
FSM(initial_state, state_data) ==
    [current_state |-> initial_state, state_data |-> state_data,
     transition_history |-> <<>>]

\* the property is_terminal
is_terminal(self) == STATE_MACHINE[self.current_state].is_terminal

\* a variant that goes from the collection of the items to the delivery
\* type, their confirmation left out
can_transition_to_unconfirmed(self, target) ==
    \/ target \in Range(STATE_MACHINE[self.current_state].allowed_transitions)
    \/ self.current_state = "COLLECTING_ITEMS" /\ target = "COLLECTING_DELIVERY_TYPE"

\* a variant that lets every state start over at the greeting
can_transition_to_or_restart(self, target) ==
    \/ target \in Range(STATE_MACHINE[self.current_state].allowed_transitions)
    \/ target = "GREETING"

\* a variant that permits every target
can_transition_to_any(self, target) == target \in ConversationState

can_transition_to(self, target) ==
    target \in Range(STATE_MACHINE[self.current_state].allowed_transitions)

\* dict.update
Update(d, data) ==
    [k \in DOMAIN d \cup DOMAIN data |-> IF k \in DOMAIN data THEN data[k] ELSE d[k]]

\* a variant that merges `data` before it tests the target
transition_merging_first(self, to_state, reason, data) ==
    IF ~can_transition_to(self, to_state)
    THEN [self |-> [self EXCEPT !.state_data = Update(self.state_data, data)],
          returns |-> FALSE]
    ELSE [self |-> [current_state |-> to_state,
                    state_data |-> Update(self.state_data, data),
                    transition_history |->
                       Append(self.transition_history,
                              StateTransition(self.current_state, to_state, reason, data))],
          returns |-> TRUE]

\* transition(to_state, reason, data): the object after the call, and what
\* the call returns
transition(self, to_state, reason, data) ==
    IF ~can_transition_to(self, to_state) THEN [self |-> self, returns |-> FALSE]
    ELSE [self |-> [current_state |-> to_state,
                    state_data |-> Update(self.state_data, data),
                    transition_history |->
                       Append(self.transition_history,
                              StateTransition(self.current_state, to_state, reason, data))],
          returns |-> TRUE]

\* the most transitions of a conversation
MaxHistory == 3

\* the `data` of the calls: none, or the delivery type
TransitionData == {<<>>, [delivery_type |-> "pickup"]}

InitFSM ==
    /\ text = <<>> /\ menu = <<>>
    /\ wratio = <<>> /\ pc = "start"
    /\ items = <<>> /\ idx = 0 /\ cart = <<>> /\ pendencies = <<>>
    /\ confidence = 10 /\ call = <<>>
    /\ results = <<>> /\ itens = <<>>
    /\ fsm \in {FSM(s, <<>>) : s \in ConversationState}

\* one call of transition(), its arguments and what it returned kept in `call`
Transition ==
    \E to_state \in ConversationState, data \in TransitionData :
       /\ Len(fsm.transition_history) < MaxHistory
       /\ fsm' = transition(fsm, to_state, <<>>, data).self
       /\ call' = <<[op |-> "transition", to_state |-> to_state, data |-> data,
                     returns |-> transition(fsm, to_state, <<>>, data).returns]>>
       /\ UNCHANGED <<text, menu, wratio, pc, items, idx, cart, pendencies, confidence,
                      results, itens>>

NextFSM == Transition

SpecFSM == InitFSM /\ [][NextFSM]_vars

\* force_transition(to_state, reason): the object after the call
force_transition(self, to_state, reason) == [self EXCEPT !.current_state = to_state]

\* the targets of the calls of force_transition()
ForceTargets == {"GREETING", "CONFIRMING_ORDER", "CANCELLED"}

\* one call of force_transition(), its target kept in `call`; the calls
\* drawn are those made on a conversation that has ended
ForceTransition ==
    \E to_state \in ForceTargets :
       /\ is_terminal(fsm)
       /\ fsm' = force_transition(fsm, to_state, "forced")
       /\ call' = <<[op |-> "force_transition", to_state |-> to_state]>>
       /\ UNCHANGED <<text, menu, wratio, pc, items, idx, cart, pendencies, confidence,
                      results, itens>>

\* transition() and force_transition() called in any order
NextForce == Transition \/ ForceTransition

SpecForce == InitFSM /\ [][NextForce]_vars

----------------------------------------------------------------------------

(* A conversation from the greeting on: FSM() and calls of transition()     *)
(* only, with any target.                                                  *)

\* the most transitions of such a conversation
MaxSteps == 10

InitGreeting ==
    /\ text = <<>> /\ menu = <<>>
    /\ wratio = <<>> /\ pc = "start"
    /\ items = <<>> /\ idx = 0 /\ cart = <<>> /\ pendencies = <<>>
    /\ confidence = 10 /\ call = <<>>
    /\ results = <<>> /\ itens = <<>>
    /\ fsm = FSM("GREETING", <<>>)

\* one call of transition() with no data; a refused call changes nothing
Advance ==
    \E to_state \in ConversationState :
       /\ Len(fsm.transition_history) < MaxSteps
       /\ fsm' = transition(fsm, to_state, <<>>, <<>>).self
       /\ UNCHANGED <<text, menu, wratio, pc, items, idx, cart, pendencies, confidence,
                      call, results, itens>>

NextGreeting == Advance

SpecGreeting == InitGreeting /\ [][NextGreeting]_vars

----------------------------------------------------------------------------

(* suggest_next_state (app/core/fsm.py) called with any arguments, and      *)
(* transition() called with the state it suggests.                         *)

\* suggest_next_state(**a): None is <<>>, a state s is <<s>>; an optional
\* string argument is <<>> or <<string>>
suggest_next_state(self, a) ==
    With(self.current_state, LAMBDA current :
       IF current = "GREETING" /\ a.cart_has_items THEN <<"COLLECTING_ITEMS">>
       ELSE IF current = "COLLECTING_ITEMS" /\ a.cart_has_pendencies THEN <<"RESOLVING_PENDING">>
       ELSE IF current = "COLLECTING_ITEMS" /\ a.items_confirmed
            THEN <<"COLLECTING_DELIVERY_TYPE">>
       ELSE IF current = "CONFIRMING_ITEMS" /\ a.items_confirmed
            THEN <<"COLLECTING_DELIVERY_TYPE">>
       ELSE IF current = "RESOLVING_PENDING" /\ ~a.cart_has_pendencies
            THEN (IF a.cart_has_items THEN <<"CONFIRMING_ITEMS">> ELSE <<"COLLECTING_ITEMS">>)
       ELSE IF current = "COLLECTING_DELIVERY_TYPE" /\ a.delivery_type = <<"pickup">>
            THEN <<"COLLECTING_PAYMENT">>
       ELSE IF current = "COLLECTING_DELIVERY_TYPE" /\ a.delivery_type = <<"delivery">>
            THEN <<"COLLECTING_ADDRESS">>
       ELSE IF current = "COLLECTING_ADDRESS" /\ a.address_provided
            THEN <<"CONFIRMING_ADDRESS">>
       ELSE IF current = "CONFIRMING_ADDRESS" /\ a.address_confirmed
            THEN <<"COLLECTING_PAYMENT">>
       ELSE IF current = "COLLECTING_PAYMENT" /\ a.payment_method \notin {<<>>, <<"">>}
            THEN (IF a.payment_method = <<"pix">> THEN <<"COLLECTING_PAYMENT_DETAILS">>
                  ELSE IF a.payment_method = <<"dinheiro">>
                       THEN <<"COLLECTING_PAYMENT_DETAILS">>
                  ELSE <<"CONFIRMING_ORDER">>)
       ELSE IF current = "COLLECTING_PAYMENT_DETAILS" /\ a.payment_method = <<"pix">>
            THEN <<"AWAITING_PIX_PROOF">>
       ELSE IF current = "COLLECTING_PAYMENT_DETAILS" /\ a.payment_details_complete
            THEN <<"CONFIRMING_ORDER">>
       ELSE IF current = "AWAITING_PIX_PROOF" /\ a.pix_proof_validated
            THEN <<"CONFIRMING_ORDER">>
       ELSE IF current = "CONFIRMING_ORDER" /\ a.order_confirmed THEN <<"ORDER_SENT">>
       ELSE <<>>)

\* the arguments of the calls: every combination of the flags, with the
\* delivery types and some payment methods
SuggestArguments ==
    [cart_has_items : BOOLEAN, cart_has_pendencies : BOOLEAN, items_confirmed : BOOLEAN,
     delivery_type : {<<>>, <<"pickup">>, <<"delivery">>},
     address_provided : BOOLEAN, address_confirmed : BOOLEAN,
     payment_method : {<<>>, <<"pix">>, <<"dinheiro">>, <<"cartao_credito">>},
     payment_details_complete : BOOLEAN, pix_proof_validated : BOOLEAN,
     order_confirmed : BOOLEAN]

\* the most transitions made on a suggestion
MaxSuggested == 1

\* one call of suggest_next_state(), its arguments and result kept in `call`;
\* the function reads current_state and its arguments only, so that one call
\* is drawn for each state the machine comes to
SuggestNextState ==
    \E a \in SuggestArguments :
       /\ IF call = <<>> THEN TRUE ELSE call[1].op = "transition"
       /\ call' = <<[op |-> "suggest_next_state", arguments |-> a,
                     result |-> suggest_next_state(fsm, a)]>>
       /\ UNCHANGED <<text, menu, wratio, pc, items, idx, cart, pendencies, confidence,
                      results, itens, fsm>>

\* transition() called with the state that the last call suggested
TransitionSuggested ==
    /\ call # <<>> /\ call[1].op = "suggest_next_state" /\ call[1].result # <<>>
    /\ Len(fsm.transition_history) < MaxSuggested
    /\ fsm' = transition(fsm, call[1].result[1], <<>>, <<>>).self
    /\ call' = <<[op |-> "transition", to_state |-> call[1].result[1], data |-> <<>>,
                  returns |-> transition(fsm, call[1].result[1], <<>>, <<>>).returns]>>
    /\ UNCHANGED <<text, menu, wratio, pc, items, idx, cart, pendencies, confidence,
                   results, itens>>

NextSuggest == SuggestNextState \/ TransitionSuggested

SpecSuggest == InitFSM /\ [][NextSuggest]_vars

----------------------------------------------------------------------------

(* _filter_by_size_hint (matcher.py) on its own: any product list and size  *)
(* hint.                                                                   *)

\* the most products of a list
MaxProducts == 3

\* the products of the lists: a plain one, one of each size, one whose size
\* word is in capitals and one without a name
SizedProducts ==
    {Entry("401", "None", <<"B","a","t","a","t","a"," ","F","r","i","t","a">>, <<20000>>, "product", <<"b","a","t","a","t","a","f","r","i","t","a">>),
     Entry("402", "None", <<"1","/","2"," ","B","a","t","a","t","a"," ","F","r","i","t","a">>, <<12000>>, "product", <<"1","2","b","a","t","a","t","a","f","r","i","t","a">>),
     Entry("404", "None", <<"B","a","t","a","t","a"," ","F","r","i","t","a"," ","1","/","4"," ","P","o","r","ç","ã","o">>, <<7000>>, "product", <<"b","a","t","a","t","a","f","r","i","t","a","1","4","p","o","r","c","a","o">>),
     Entry("405", "None", <<"M","E","I","A"," ","P","o","r","ç","ã","o">>, <<11000>>, "product", <<"m","e","i","a","p","o","r","c","a","o">>),
     Entry("406", "None", <<>>, <<1000>>, "product", <<>>)}

ProductLists ==
    UNION {[1..n -> SizedProducts] : n \in 0..MaxProducts}

SizeHints == {"1/4", "1/2", "none"}

\* the arguments of the call to come are in `call`
InitSize ==
    /\ text = <<>> /\ menu = <<>>
    /\ wratio = <<>> /\ pc = "start"
    /\ items = <<>> /\ idx = 0 /\ cart = <<>> /\ pendencies = <<>>
    /\ confidence = 10
    /\ call \in {<<[products |-> products, size_hint |-> size_hint]>> :
                    products \in ProductLists, size_hint \in SizeHints}
    /\ results = <<>> /\ itens = <<>> /\ fsm = <<>>

\* the call of _filter_by_size_hint, its result kept with its arguments
FilterBySizeHint ==
    /\ "result" \notin DOMAIN call[1]
    /\ call' = <<[products |-> call[1].products, size_hint |-> call[1].size_hint,
                  result |-> _filter_by_size_hint(call[1].products, call[1].size_hint)]>>
    /\ UNCHANGED <<text, menu, wratio, pc, items, idx, cart, pendencies, confidence,
                   results, itens, fsm>>

NextSize == FilterBySizeHint

SpecSize == InitSize /\ [][NextSize]_vars

----------------------------------------------------------------------------

(* normalize_phone (app/utils/phone.py) on its own: any telephone number.   *)

\* digits after re.sub(r"\D", "", phone) and lstrip("0"), with the country
\* code put before a number of 10 or 11 digits
normalize_phone(phone) ==
    IF phone = <<>> THEN <<>>
    ELSE With(LStripSet(FilterChars(phone, Digits), {"0"}), LAMBDA digits :
            IF Len(digits) = 11 THEN <<"5","5">> \o digits
            ELSE IF Len(digits) = 10 THEN <<"5","5">> \o digits
            ELSE digits)

\* the telephone numbers of the calls: a country part, an area part and a
\* subscriber part, each written in several ways or left out
CountryParts == {<<>>, <<"0">>, <<"+","5","5"," ">>, <<"5","5">>, <<"+","1"," ">>}

AreaParts == {<<>>, <<"4","7">>, <<"(","4","7",")"," ">>, <<"0","4","7"," ">>}

SubscriberParts == {<<>>, <<"0">>, <<"3","3","3","3","-","4","4","4","4">>, <<"9","9","9","9","9","-","9","9","9","9">>, <<"9"," ","9","9","9","9"," ","9","9","9","9">>, <<"9","9","9","9","9","9","9","9","9">>}

Phones == {c \o a \o n : c \in CountryParts, a \in AreaParts, n \in SubscriberParts}

InitPhone ==
    /\ text = <<>> /\ menu = <<>>
    /\ wratio = <<>> /\ pc = "start"
    /\ items = <<>> /\ idx = 0 /\ cart = <<>> /\ pendencies = <<>>
    /\ confidence = 10 /\ call = <<>>
    /\ results = <<>> /\ itens = <<>> /\ fsm = <<>>

\* one call of normalize_phone, its argument and result kept in `call`
NormalizePhone ==
    \E phone \in Phones :
       /\ call' = <<[phone |-> phone, result |-> normalize_phone(phone)]>>
       /\ UNCHANGED <<text, menu, wratio, pc, items, idx, cart, pendencies, confidence,
                      results, itens, fsm>>

NextPhone == NormalizePhone

SpecPhone == InitPhone /\ [][NextPhone]_vars

----------------------------------------------------------------------------

(* The input guardrails (app/core/guardrails.py): classify() on one         *)
(* message.  A pattern is a tree; a character that the module cannot hold  *)
(* is named by its code point ("U+1F44D").                                 *)

\* the nodes of a pattern: a literal, a character class, a group, a
\* concatenation, an alternation, a repetition {lo,hi} (hi = -1: no limit),
\* ^, $ and \b
Lit(s) == [t |-> "lit", s |-> s]
In(set) == [t |-> "in", set |-> set]
Group(r) == r
Cat(rs) == [t |-> "cat", rs |-> rs]
Alt(rs) == [t |-> "alt", rs |-> rs]
Rep(r, lo, hi) == [t |-> "rep", r |-> r, lo |-> lo, hi |-> hi]
Bos == [t |-> "bos"]
Eos == [t |-> "eos"]
WordB == [t |-> "b"]

\* the positions where a match of r that starts at a position of P can end,
\* under re.IGNORECASE
RECURSIVE Ends(_, _, _), CatEnds(_, _, _), RepEnds(_, _, _, _, _)
Ends(r, s, P) ==
    CASE r.t = "lit" -> {p + Len(r.s) : p \in {q \in P : LitAtCI(s, q, Lower(r.s)) # 0}}
      [] r.t = "in" ->
            {p + 1 : p \in {q \in P : q <= Len(s)
                                      /\ LowerChar(s[q]) \in {LowerChar(c) : c \in r.set}}}
      [] r.t = "cat" -> CatEnds(r.rs, s, P)
      [] r.t = "alt" -> UNION {Ends(r.rs[i], s, P) : i \in 1..Len(r.rs)}
      [] r.t = "rep" -> RepEnds(r.r, s, P, r.lo, r.hi)
      [] r.t = "bos" -> P \cap {1}
      [] r.t = "eos" -> {p \in P : p = Len(s) + 1 \/ (p = Len(s) /\ s[p] = "\n")}
      [] r.t = "b" -> {p \in P : Boundary(s, p)}

CatEnds(rs, s, P) ==
    IF rs = <<>> THEN P ELSE CatEnds(Tail(rs), s, Ends(Head(rs), s, P))

RepEnds(r, s, P, lo, hi) ==
    IF lo > 0 THEN RepEnds(r, s, Ends(r, s, P), lo - 1, IF hi = -1 THEN -1 ELSE hi - 1)
    ELSE IF hi = 0 \/ P = {} THEN P
    ELSE IF hi = -1
         THEN With(P \cup Ends(r, s, P), LAMBDA Q :
                 IF Q = P THEN P ELSE RepEnds(r, s, Q, 0, -1))
    ELSE P \cup RepEnds(r, s, Ends(r, s, P), 0, hi - 1)

\* pattern.match(s) and pattern.search(s): whether there is a match
ReMatch(r, s) == Ends(r, s, {1}) # {}
ReSearch(r, s) == Ends(r, s, 1..Len(s) + 1) # {}

CONFIRM_PATTERNS ==
    \* ^(sim|ss?|s|siiim*|yes|yeah|yep)$
    << Cat(<<Bos, Group(Alt(<<Lit(<<"s","i","m">>), Cat(<<Lit(<<"s">>), Rep(Lit(<<"s">>), 0,
         1)>>), Lit(<<"s">>), Cat(<<Lit(<<"s","i","i","i">>), Rep(Lit(<<"m">>), 0, -1)>>),
         Lit(<<"y","e","s">>), Lit(<<"y","e","a","h">>), Lit(<<"y","e","p">>)>>)), Eos>>),
    \* ^(ok|okay|oks?|okk+|blz|beleza)$
       Cat(<<Bos, Group(Alt(<<Lit(<<"o","k">>), Lit(<<"o","k","a","y">>), Cat(<<Lit(<<"o","k">>),
         Rep(Lit(<<"s">>), 0, 1)>>), Cat(<<Lit(<<"o","k">>), Rep(Lit(<<"k">>), 1, -1)>>), Lit(<<
         "b","l","z">>), Lit(<<"b","e","l","e","z","a">>)>>)), Eos>>),
    \* ^(pode|podee*|isso|iss+o|exato)$
       Cat(<<Bos, Group(Alt(<<Lit(<<"p","o","d","e">>), Cat(<<Lit(<<"p","o","d","e">>),
         Rep(Lit(<<"e">>), 0, -1)>>), Lit(<<"i","s","s","o">>), Cat(<<Lit(<<"i","s">>),
         Rep(Lit(<<"s">>), 1, -1), Lit(<<"o">>)>>), Lit(<<"e","x","a","t","o">>)>>)), Eos>>),
    \* ^(confirm[ao]?|certo|certinho)$
       Cat(<<Bos, Group(Alt(<<Cat(<<Lit(<<"c","o","n","f","i","r","m">>), Rep(In({"a", "o"}), 0,
         1)>>), Lit(<<"c","e","r","t","o">>), Lit(<<"c","e","r","t","i","n","h","o">>)>>)),
         Eos>>),
    \* ^(tá|ta|taa+|tudo bem|fechado)$
       Cat(<<Bos, Group(Alt(<<Lit(<<"t","á">>), Lit(<<"t","a">>), Cat(<<Lit(<<"t","a">>),
         Rep(Lit(<<"a">>), 1, -1)>>), Lit(<<"t","u","d","o"," ","b","e","m">>), Lit(<<"f","e",
         "c","h","a","d","o">>)>>)), Eos>>),
    \* ^(bora|vamos|manda|dale|partiu)$
       Cat(<<Bos, Group(Alt(<<Lit(<<"b","o","r","a">>), Lit(<<"v","a","m","o","s">>), Lit(<<"m",
         "a","n","d","a">>), Lit(<<"d","a","l","e">>), Lit(<<"p","a","r","t","i","u">>)>>)),
         Eos>>),
    \* ^(perfeito|ótimo|otimo|show)$
       Cat(<<Bos, Group(Alt(<<Lit(<<"p","e","r","f","e","i","t","o">>), Lit(<<"ó","t","i","m",
         "o">>), Lit(<<"o","t","i","m","o">>), Lit(<<"s","h","o","w">>)>>)), Eos>>),
    \* ^(positivo|afirmativo|correto)$
       Cat(<<Bos, Group(Alt(<<Lit(<<"p","o","s","i","t","i","v","o">>), Lit(<<"a","f","i","r",
         "m","a","t","i","v","o">>), Lit(<<"c","o","r","r","e","t","o">>)>>)), Eos>>),
    \* ^U+1F44D+$
       Cat(<<Bos, Rep(Lit(<<"U+1F44D">>), 1, -1), Eos>>),
    \* ^U+2705+$
       Cat(<<Bos, Rep(Lit(<<"U+2705">>), 1, -1), Eos>>) >>

DENY_PATTERNS ==
    \* ^(não|nao|n|nn+|naoo*|nope)$
    << Cat(<<Bos, Group(Alt(<<Lit(<<"n","ã","o">>), Lit(<<"n","a","o">>), Lit(<<"n">>),
         Cat(<<Lit(<<"n">>), Rep(Lit(<<"n">>), 1, -1)>>), Cat(<<Lit(<<"n","a","o">>), Rep(Lit(<<
         "o">>), 0, -1)>>), Lit(<<"n","o","p","e">>)>>)), Eos>>),
    \* ^(nunca|jamais|negativo)$
       Cat(<<Bos, Group(Alt(<<Lit(<<"n","u","n","c","a">>), Lit(<<"j","a","m","a","i","s">>),
         Lit(<<"n","e","g","a","t","i","v","o">>)>>)), Eos>>),
    \* ^(errado|incorreto)$
       Cat(<<Bos, Group(Alt(<<Lit(<<"e","r","r","a","d","o">>), Lit(<<"i","n","c","o","r","r",
         "e","t","o">>)>>)), Eos>>),
    \* ^(para|pare|espera)$
       Cat(<<Bos, Group(Alt(<<Lit(<<"p","a","r","a">>), Lit(<<"p","a","r","e">>), Lit(<<"e","s",
         "p","e","r","a">>)>>)), Eos>>),
    \* ^U+1F44E+$
       Cat(<<Bos, Rep(Lit(<<"U+1F44E">>), 1, -1), Eos>>),
    \* ^U+274C+$
       Cat(<<Bos, Rep(Lit(<<"U+274C">>), 1, -1), Eos>>) >>

CANCEL_PATTERNS ==
    \* ^(cancel[ao]?r?|cancela isso)$
    << Cat(<<Bos, Group(Alt(<<Cat(<<Lit(<<"c","a","n","c","e","l">>), Rep(In({"a", "o"}), 0, 1),
         Rep(Lit(<<"r">>), 0, 1)>>), Lit(<<"c","a","n","c","e","l","a"," ","i","s","s","o"
         >>)>>)), Eos>>),
    \* ^(desist[io]r?|desisto)$
       Cat(<<Bos, Group(Alt(<<Cat(<<Lit(<<"d","e","s","i","s","t">>), In({"i", "o"}), Rep(Lit(<<
         "r">>), 0, 1)>>), Lit(<<"d","e","s","i","s","t","o">>)>>)), Eos>>),
    \* ^(esquece|deixa|para|pare)$
       Cat(<<Bos, Group(Alt(<<Lit(<<"e","s","q","u","e","c","e">>), Lit(<<"d","e","i","x","a">>),
         Lit(<<"p","a","r","a">>), Lit(<<"p","a","r","e">>)>>)), Eos>>),
    \* ^(não quero mais|nao quero mais)$
       Cat(<<Bos, Group(Alt(<<Lit(<<"n","ã","o"," ","q","u","e","r","o"," ","m","a","i","s">>),
         Lit(<<"n","a","o"," ","q","u","e","r","o"," ","m","a","i","s">>)>>)), Eos>>),
    \* ^(sair|sai|exit|quit)$
       Cat(<<Bos, Group(Alt(<<Lit(<<"s","a","i","r">>), Lit(<<"s","a","i">>), Lit(<<"e","x","i",
         "t">>), Lit(<<"q","u","i","t">>)>>)), Eos>>) >>

HELP_PATTERNS ==
    \* ^(ajuda|help|socorro)$
    << Cat(<<Bos, Group(Alt(<<Lit(<<"a","j","u","d","a">>), Lit(<<"h","e","l","p">>), Lit(<<"s",
         "o","c","o","r","r","o">>)>>)), Eos>>),
    \* ^(cardápio|cardapio|menu)$
       Cat(<<Bos, Group(Alt(<<Lit(<<"c","a","r","d","á","p","i","o">>), Lit(<<"c","a","r","d",
         "a","p","i","o">>), Lit(<<"m","e","n","u">>)>>)), Eos>>),
    \* ^(o que (tem|voc[eê]s t[eê]m))$
       Cat(<<Bos, Group(Cat(<<Lit(<<"o"," ","q","u","e"," ">>), Group(Alt(<<Lit(<<"t","e","m">>),
         Cat(<<Lit(<<"v","o","c">>), In({"e", "ê"}), Lit(<<"s"," ","t">>), In({"e", "ê"}),
         Lit(<<"m">>)>>)>>))>>)), Eos>>),
    \* ^(quais? (são|sao) (os|as)? (opç[oõ]es|opcoes))$
       Cat(<<Bos, Group(Cat(<<Lit(<<"q","u","a","i">>), Rep(Lit(<<"s">>), 0, 1), Lit(<<" ">>),
         Group(Alt(<<Lit(<<"s","ã","o">>), Lit(<<"s","a","o">>)>>)), Lit(<<" ">>),
         Rep(Group(Alt(<<Lit(<<"o","s">>), Lit(<<"a","s">>)>>)), 0, 1), Lit(<<" ">>),
         Group(Alt(<<Cat(<<Lit(<<"o","p","ç">>), In({"o", "õ"}), Lit(<<"e","s">>)>>), Lit(<<"o",
         "p","c","o","e","s">>)>>))>>)), Eos>>) >>

REPEAT_PATTERNS ==
    \* ^(repet[ei]r?|repete)$
    << Cat(<<Bos, Group(Alt(<<Cat(<<Lit(<<"r","e","p","e","t">>), In({"e", "i"}), Rep(Lit(<<"r"
         >>), 0, 1)>>), Lit(<<"r","e","p","e","t","e">>)>>)), Eos>>),
    \* ^(de novo|denovo)$
       Cat(<<Bos, Group(Alt(<<Lit(<<"d","e"," ","n","o","v","o">>), Lit(<<"d","e","n","o","v",
         "o">>)>>)), Eos>>),
    \* ^(novamente|outra vez)$
       Cat(<<Bos, Group(Alt(<<Lit(<<"n","o","v","a","m","e","n","t","e">>), Lit(<<"o","u","t",
         "r","a"," ","v","e","z">>)>>)), Eos>>),
    \* ^(como|oi|hã|hum)\??$
       Cat(<<Bos, Group(Alt(<<Lit(<<"c","o","m","o">>), Lit(<<"o","i">>), Lit(<<"h","ã">>),
         Lit(<<"h","u","m">>)>>)), Rep(Lit(<<"?">>), 0, 1), Eos>>),
    \* ^(\?+)$
       Cat(<<Bos, Group(Rep(Lit(<<"?">>), 1, -1)), Eos>>) >>

\* the methods in the order of the dict, each with its patterns
PAYMENT_PATTERNS ==
    << <<"dinheiro",
            \* ^(dinheiro|din|grana|cash)$
            << Cat(<<Bos, Group(Alt(<<Lit(<<"d","i","n","h","e","i","r","o">>), Lit(<<"d","i","n">>),
                 Lit(<<"g","r","a","n","a">>), Lit(<<"c","a","s","h">>)>>)), Eos>>),
            \* ^(em espécie|especie)$
               Cat(<<Bos, Group(Alt(<<Lit(<<"e","m"," ","e","s","p","é","c","i","e">>), Lit(<<"e","s",
                 "p","e","c","i","e">>)>>)), Eos>>) >>>>,
       <<"pix",
            \* ^(pix|piks?)$
            << Cat(<<Bos, Group(Alt(<<Lit(<<"p","i","x">>), Cat(<<Lit(<<"p","i","k">>), Rep(Lit(<<"s">>),
                 0, 1)>>)>>)), Eos>>) >>>>,
       <<"cartao_credito",
            \* ^(cart[aã]o\s*(de\s*)?cr[eé]dito|credito)$
            << Cat(<<Bos, Group(Alt(<<Cat(<<Lit(<<"c","a","r","t">>), In({"a", "ã"}), Lit(<<"o">>),
                 Rep(In(Spaces), 0, -1), Rep(Group(Cat(<<Lit(<<"d","e">>), Rep(In(Spaces), 0, -1)>>)), 0,
                 1), Lit(<<"c","r">>), In({"e", "é"}), Lit(<<"d","i","t","o">>)>>), Lit(<<"c","r","e",
                 "d","i","t","o">>)>>)), Eos>>),
            \* ^(cr[eé]dito)$
               Cat(<<Bos, Group(Cat(<<Lit(<<"c","r">>), In({"e", "é"}), Lit(<<"d","i","t","o">>)>>)),
                 Eos>>) >>>>,
       <<"cartao_debito",
            \* ^(cart[aã]o\s*(de\s*)?d[eé]bito|debito)$
            << Cat(<<Bos, Group(Alt(<<Cat(<<Lit(<<"c","a","r","t">>), In({"a", "ã"}), Lit(<<"o">>),
                 Rep(In(Spaces), 0, -1), Rep(Group(Cat(<<Lit(<<"d","e">>), Rep(In(Spaces), 0, -1)>>)), 0,
                 1), Lit(<<"d">>), In({"e", "é"}), Lit(<<"b","i","t","o">>)>>), Lit(<<"d","e","b","i",
                 "t","o">>)>>)), Eos>>),
            \* ^(d[eé]bito)$
               Cat(<<Bos, Group(Cat(<<Lit(<<"d">>), In({"e", "é"}), Lit(<<"b","i","t","o">>)>>)),
                 Eos>>) >>>>,
       <<"cartao",
            \* ^(cart[aã]o|cartao)$
            << Cat(<<Bos, Group(Alt(<<Cat(<<Lit(<<"c","a","r","t">>), In({"a", "ã"}), Lit(<<"o">>)>>),
                 Lit(<<"c","a","r","t","a","o">>)>>)), Eos>>) >>>> >>

\* ^(\d{1,2})$
QUANTITY_PATTERN ==
    Cat(<<Bos, Group(Rep(In(Digits), 1, 2)), Eos>>)

PHONE_PATTERNS ==
    \* ^\+?55?\s*\(?(\d{2})\)?\s*9?\s*(\d{4})[-.\s]?(\d{4})$
    << Cat(<<Bos, Rep(Lit(<<"+">>), 0, 1), Lit(<<"5">>), Rep(Lit(<<"5">>), 0, 1), Rep(In(Spaces),
         0, -1), Rep(Lit(<<"(">>), 0, 1), Group(Rep(In(Digits), 2, 2)), Rep(Lit(<<")">>), 0, 1),
         Rep(In(Spaces), 0, -1), Rep(Lit(<<"9">>), 0, 1), Rep(In(Spaces), 0, -1),
         Group(Rep(In(Digits), 4, 4)), Rep(In({"-", "."} \cup Spaces), 0, 1),
         Group(Rep(In(Digits), 4, 4)), Eos>>),
    \* ^(\d{2})\s*9?(\d{4})[-.\s]?(\d{4})$
       Cat(<<Bos, Group(Rep(In(Digits), 2, 2)), Rep(In(Spaces), 0, -1), Rep(Lit(<<"9">>), 0, 1),
         Group(Rep(In(Digits), 4, 4)), Rep(In({"-", "."} \cup Spaces), 0, 1),
         Group(Rep(In(Digits), 4, 4)), Eos>>),
    \* ^9?(\d{4})[-.\s]?(\d{4})$
       Cat(<<Bos, Rep(Lit(<<"9">>), 0, 1), Group(Rep(In(Digits), 4, 4)), Rep(In({"-", "."
         } \cup Spaces), 0, 1), Group(Rep(In(Digits), 4, 4)), Eos>>) >>

ADDRESS_INDICATORS ==
    \* \brua\b
    << Cat(<<WordB, Lit(<<"r","u","a">>), WordB>>),
    \* \bavenida\b
       Cat(<<WordB, Lit(<<"a","v","e","n","i","d","a">>), WordB>>),
    \* \bav\.?\b
       Cat(<<WordB, Lit(<<"a","v">>), Rep(Lit(<<".">>), 0, 1), WordB>>),
    \* \btravessa\b
       Cat(<<WordB, Lit(<<"t","r","a","v","e","s","s","a">>), WordB>>),
    \* \bservidão\b
       Cat(<<WordB, Lit(<<"s","e","r","v","i","d","ã","o">>), WordB>>),
    \* \bn[úu]mero\b|\bn[ºo°]?\s*\d+
       Alt(<<Cat(<<WordB, Lit(<<"n">>), In({"ú", "u"}), Lit(<<"m","e","r","o">>), WordB>>),
         Cat(<<WordB, Lit(<<"n">>), Rep(In({"º", "o", "°"}), 0, 1), Rep(In(Spaces), 0, -1),
         Rep(In(Digits), 1, -1)>>)>>),
    \* \bcep\b
       Cat(<<WordB, Lit(<<"c","e","p">>), WordB>>),
    \* \bbairro\b
       Cat(<<WordB, Lit(<<"b","a","i","r","r","o">>), WordB>>),
    \* \bcentro\b
       Cat(<<WordB, Lit(<<"c","e","n","t","r","o">>), WordB>>),
    \* \bprédio\b|\bpredio\b|\bapartamento\b|\bapto?\b
       Alt(<<Cat(<<WordB, Lit(<<"p","r","é","d","i","o">>), WordB>>), Cat(<<WordB, Lit(<<"p","r"
         ,"e","d","i","o">>), WordB>>), Cat(<<WordB, Lit(<<"a","p","a","r","t","a","m","e","n",
         "t","o">>), WordB>>), Cat(<<WordB, Lit(<<"a","p","t">>), Rep(Lit(<<"o">>), 0, 1),
         WordB>>)>>),
    \* \bbloco\b|\bbl\.?\b
       Alt(<<Cat(<<WordB, Lit(<<"b","l","o","c","o">>), WordB>>), Cat(<<WordB, Lit(<<"b","l">>),
         Rep(Lit(<<".">>), 0, 1), WordB>>)>>) >>

\* "|".join(f"({p})" for p in patterns), compiled
_compile_patterns(patterns) == Alt([i \in 1..Len(patterns) |-> Group(patterns[i])])

\* InputGuardrails.normalize
normalize(text_) ==
    StripSet(Join(SplitWS(Lower(Unidecode(text_))), <<" ">>), EdgePunct)

\* InputGuardrails._normalize_phone
_normalize_phone(digits) ==
    With(LStripSet(digits, {"0"}), LAMBDA d :
       IF Len(d) = 11 THEN <<"5","5">> \o d
       ELSE IF Len(d) = 10 THEN <<"5","5">> \o d
       ELSE d)

\* the payment methods, in the order of the dict, whose pattern matches
PaymentMatches(normalized) ==
    SelectSeq(PAYMENT_PATTERNS, LAMBDA m : ReMatch(_compile_patterns(m[2]), normalized))

\* classify(text): the intent and the extracted data, {} being <<>>
classify(text_) ==
    With(normalize(text_), LAMBDA normalized :
    With(Strip(text_), LAMBDA original :
       IF normalized = <<>> THEN [intent |-> "NEEDS_LLM", extracted |-> <<>>]
       ELSE IF ReMatch(_compile_patterns(CONFIRM_PATTERNS), normalized)
            THEN [intent |-> "CONFIRM", extracted |-> <<>>]
       ELSE IF ReMatch(_compile_patterns(DENY_PATTERNS), normalized)
            THEN [intent |-> "DENY", extracted |-> <<>>]
       ELSE IF ReMatch(_compile_patterns(CANCEL_PATTERNS), normalized)
            THEN [intent |-> "CANCEL", extracted |-> <<>>]
       ELSE IF ReMatch(_compile_patterns(HELP_PATTERNS), normalized)
            THEN [intent |-> "HELP", extracted |-> <<>>]
       ELSE IF ReMatch(_compile_patterns(REPEAT_PATTERNS), normalized)
            THEN [intent |-> "REPEAT", extracted |-> <<>>]
       ELSE IF PaymentMatches(normalized) # <<>>
            THEN [intent |-> "PAYMENT_METHOD",
                  extracted |-> [payment_method |-> PaymentMatches(normalized)[1][1]]]
       ELSE IF ReMatch(QUANTITY_PATTERN, normalized)
            THEN [intent |-> "QUANTITY", extracted |-> [quantity |-> IntOf(normalized)]]
       ELSE IF \E i \in 1..Len(PHONE_PATTERNS) : ReMatch(PHONE_PATTERNS[i], original)
            THEN [intent |-> "PHONE_NUMBER",
                  extracted |-> [phone |-> _normalize_phone(FilterChars(original, Digits))]]
       ELSE IF Cardinality({i \in 1..Len(ADDRESS_INDICATORS) :
                               ReSearch(ADDRESS_INDICATORS[i], normalized)}) >= 2
            THEN [intent |-> "ADDRESS", extracted |-> [possible_address |-> original]]
       ELSE [intent |-> "NEEDS_LLM", extracted |-> <<>>]))

\* the messages: a phrase, as it is or in capitals, between what is typed
\* before and after it
Phrases ==
    {<<>>, <<"?">>, <<"c","a","n","c","e","l","a","r">>, <<"c","a","n","c","e","l","a">>, <<"c","a","n","c","e","l","o">>, <<"c","a","n","c","e","l","a"," ","i","s","s","o">>, <<"d","e","s","i","s","t","o">>, <<"d","e","s","i","s","t","i","r">>,
     <<"e","s","q","u","e","c","e">>, <<"d","e","i","x","a">>, <<"p","a","r","a">>, <<"p","a","r","e">>, <<"P","A","R","E">>, <<"C","a","n","c","e","l","a","r">>, <<"n","ã","o"," ","q","u","e","r","o"," ","m","a","i","s">>,
     <<"n","a","o"," ","q","u","e","r","o"," ","m","a","i","s">>, <<"s","a","i","r">>, <<"e","x","i","t">>, <<"s","i","m">>, <<"o","k">>, <<"n">>, <<"n","ã","o">>, <<"e","s","p","e","r","a">>, <<"a","j","u","d","a">>,
     <<"c","a","r","d","á","p","i","o">>, <<"d","e"," ","n","o","v","o">>, <<"c","o","m","o">>, <<"p","i","x">>, <<"d","i","n","h","e","i","r","o">>, <<"c","a","r","t","ã","o"," ","d","e"," ","c","r","é","d","i","t","o">>, <<"c","a","r","t","a","o">>,
     <<"2">>, <<"4","7"," ","9","9","9","9","9","-","9","9","9","9">>, <<"9","9","9","9","9","-","9","9","9","9">>, <<"r","u","a"," ","d","a","s"," ","f","l","o","r","e","s"," ","1","2"," ","c","e","n","t","r","o">>, <<"r","u","a"," ","b">>,
     <<"q","u","e","r","o"," ","u","m"," ","x"," ","s","a","l","a","d","a">>, <<"c","a","n","c","e","l","a","r"," ","o"," ","p","e","d","i","d","o">>, <<"p","a","r","a"," ","m","i","m">>}

Befores == {<<>>, <<" ">>}

Afters == {<<>>, <<"!","!">>, <<"."," ">>}

GuardrailTexts == {b \o p \o a : b \in Befores, p \in Phrases, a \in Afters}

InitGuardrails ==
    /\ text \in GuardrailTexts /\ menu = <<>>
    /\ wratio = <<>> /\ pc = "start"
    /\ items = <<>> /\ idx = 0 /\ cart = <<>> /\ pendencies = <<>>
    /\ confidence = 10 /\ call = <<>>
    /\ results = <<>> /\ itens = <<>> /\ fsm = <<>>

\* the call of classify(text), what it returns kept in `call`
Classify ==
    /\ call = <<>>
    /\ call' = <<classify(text)>>
    /\ UNCHANGED <<text, menu, wratio, pc, items, idx, cart, pendencies, confidence,
                   results, itens, fsm>>

NextGuardrails == Classify

SpecGuardrails == InitGuardrails /\ [][NextGuardrails]_vars

----------------------------------------------------------------------------

(* Properties of the pipeline and of find_best_match.                      *)

\* the products of the snapshot
Products == _build_menu_index(menu).products

\* a pendency raised for a whole line carries the line's quantity; one
\* raised for an addition of a matched line carries its product instead
IsLineLevel(p) == "quantidade" \in DOMAIN p.dados_extras

LineLevel(pends) == SelectSeq(pends, IsLineLevel)

\* the items of `its` with, or without, a line-level pendency in `pends`
HasPendency(it, pends) ==
    \E j \in 1..Len(pends) : IsLineLevel(pends[j]) /\ pends[j].texto_original = it.raw

Pended(its, pends) == SelectSeq(its, LAMBDA it : HasPendency(it, pends))

Carted(its, pends) == SelectSeq(its, LAMBDA it : ~HasPendency(it, pends))

\* the sequence s without its k-th element
Remove(s, k) == SubSeq(s, 1, k - 1) \o SubSeq(s, k + 1, Len(s))

\* C1: the pipeline returns an interpretation and never raises, whatever
\* quantities the lines of the text carry.
C1_NeverRaises == pc # "raised"

\* C2: the matcher never drops a line silently: every line matched so far
\* (all of them in the result) has either its cart item or its line-level
\* pendency, so that the cart items and the line-level pendencies are as many
\* as those lines, and both follow the order of their lines.
C2_NoSilentDrop ==
    pc \in {"matching", "done", "raised"} =>
       With(SubSeq(items, 1, idx), LAMBDA seen :
       With(Carted(seen, pendencies), LAMBDA carted :
          /\ pc = "done" => idx = Len(items)
          /\ Len(cart) + Len(LineLevel(pendencies)) = Len(seen)
          /\ [k \in 1..Len(cart) |-> <<cart[k].quantidade, cart[k].observacoes>>]
             = [k \in 1..Len(carted) |->
                   <<carted[k].quantity, _build_observacoes(carted[k])>>]
          /\ [k \in 1..Len(LineLevel(pendencies)) |->
                   LineLevel(pendencies)[k].texto_original]
             = [k \in 1..Len(Pended(seen, pendencies)) |->
                   Pended(seen, pendencies)[k].raw]))

\* a result with a cart item, a line-level pendency and a pendency of an addition
C2_Witness ==
    /\ pc = "done" /\ Len(items) = 2
    /\ Len(cart) = 1 /\ Len(LineLevel(pendencies)) = 1
    /\ Len(pendencies) > 1

\* C3: every parsed item has a quantity of at least 1.
C3_QuantityAtLeastOne ==
    \A i \in 1..Len(items) : items[i].quantity >= 1

\* the confidence of a result with n pendencies, in tenths
ConfidenceOf(n) == IF 10 - 2 * n < 1 THEN 1 ELSE 10 - 2 * n

\* C4: the confidence of a result is max(0.1, 1.0 - 0.2 n) for its n
\* pendencies of either kind: 1.0 without pendencies, never below 0.1, and
\* the same for any two results with as many pendencies.
C4_Confidence ==
    pc = "done" =>
       /\ confidence = ConfidenceOf(Len(pendencies))
       /\ confidence \in 1..10
       /\ (pendencies = <<>>) => confidence = 10

\* a result with five pendencies, where the floor applies
C4_Witness ==
    /\ pc = "done" /\ Len(pendencies) = 5
    /\ Len(LineLevel(pendencies)) = 1
    /\ confidence = 1

\* round(v, 2) of a Decimal v >= 0 in thousandths (half to even)
Round2(v) ==
    IF v % 10 < 5 THEN v - (v % 10)
    ELSE IF v % 10 > 5 THEN v - (v % 10) + 10
    ELSE IF (v \div 10) % 2 = 0 THEN v - 5 ELSE v + 5

\* the price of the first n additions of the cart item c, each times its quantity
RECURSIVE AdditionsPrice(_, _)
AdditionsPrice(c, n) ==
    IF n = 0 THEN 0
    ELSE AdditionsPrice(c, n - 1)
         + c.adicionais[n].preco_unitario * c.adicionais[n].quantidade

LineTotal(c) == (c.preco_unitario + AdditionsPrice(c, Len(c.adicionais))) * c.quantidade

\* C5 as stated: the total of every cart item is its unit price plus its
\* additions, times its quantity, rounded to two decimal places.
C5_RoundedTotal ==
    \A k \in 1..Len(cart) : cart[k].preco_total = Round2(LineTotal(cart[k]))

\* C5: the total of every cart item is exactly its unit price plus the sum of
\* its additions' prices times their quantities, all times its quantity,
\* with no rounding.
C5_ExactTotal ==
    \A k \in 1..Len(cart) : cart[k].preco_total = LineTotal(cart[k])

\* a cart item of quantity two with a priced addition
C5_Witness ==
    \E k \in 1..Len(cart) :
       /\ cart[k].quantidade = 2
       /\ \E a \in 1..Len(cart[k].adicionais) : cart[k].adicionais[a].preco_unitario > 0

\* the cart item that a step of the loop appended
NewItem == cart'[Len(cart')]

\* the entries that can be added to the product of NewItem
NewAdditions == GetAdditions(_build_menu_index(menu).additions_by_parent, NewItem.pdv)

\* the positions of the additions that resolved, or did not, `resolved` being
\* what _match_addition found for each
Positions(resolved, found) ==
    SelectSeq([i \in 1..Len(resolved) |-> i], LAMBDA i : (resolved[i] # <<>>) = found)

\* a step of the loop on a line that is not additive-only
ProductStep ==
    /\ pc = "matching" /\ idx < Len(items)
    /\ ~Line.is_additional_only

\* a step of the loop that appends a cart item
CartStep == ProductStep /\ Len(cart') = Len(cart) + 1

\* C6: when the product of a line is matched and m of its k additions
\* resolve, the line yields a cart item with exactly the m resolved additions
\* in input order and k - m addition pendencies that name the product; the
\* unmatched additions never keep the cart item from being emitted.
C6_PartialPendency ==
    [][/\ ProductStep =>
             \A product \in {_match_product(Line, Products, wratio')} :
                (/\ product # <<>>
                 /\ CartItemValid(Line.quantity, _to_decimal(product[1].price),
                                  _build_observacoes(Line)))
                => CartStep
       /\ CartStep =>
             \A resolved \in {[i \in 1..Len(Line.additions) |->
                                 _match_addition(Line.additions[i], NewAdditions, wratio')]} :
             \A added \in {SubSeq(pendencies', Len(pendencies) + 1, Len(pendencies'))} :
             \A hit \in {Positions(resolved, TRUE)}, miss \in {Positions(resolved, FALSE)} :
                /\ Len(NewItem.adicionais) + Len(added) = Len(Line.additions)
                /\ [k \in 1..Len(NewItem.adicionais) |-> NewItem.adicionais[k].pdv]
                   = [k \in 1..Len(hit) |-> resolved[hit[k]][1].pdv]
                /\ SubSeq(pendencies', 1, Len(pendencies)) = pendencies
                /\ [k \in 1..Len(added) |->
                      <<added[k].motivo, added[k].texto_original, added[k].dados_extras>>]
                   = [k \in 1..Len(miss) |->
                         <<"adicional_nao_encontrado", Line.additions[miss[k]],
                           [produto_base |-> NewItem.nome]>>]]_vars

\* a cart item with one of the two additions of its line, the other pending
C6_Witness ==
    /\ pc = "done"
    /\ \E k \in 1..Len(cart), i \in 1..Len(items), j \in 1..Len(pendencies) :
          /\ Len(items[i].additions) = 2 /\ Len(cart[k].adicionais) = 1
          /\ cart[k].quantidade = items[i].quantity
          /\ pendencies[j].motivo = "adicional_nao_encontrado"
          /\ pendencies[j].texto_original = items[i].additions[2]
          /\ pendencies[j].dados_extras = [produto_base |-> cart[k].nome]

\* C7: a line whose product is not matched yields exactly one
\* product-not-found pendency, no cart item and no addition pendencies, and
\* the loop goes on: the cart, the other pendencies and whether a later line
\* raises are what they would be without that line.
C7_FullPendency ==
    pc \in {"done", "raised"} =>
       \A k \in 1..idx :
          (~items[k].is_additional_only /\ _match_product(items[k], Products, wratio) = <<>>)
          => With(MatchLoop(Remove(items, k), menu, Outcome(<<>>, <<>>, FALSE, <<>>), 1, wratio),
                  LAMBDA rest :
                /\ rest.raised = (pc = "raised")
                /\ rest.interpreted_items = cart
                /\ \E j \in 1..Len(pendencies) :
                      /\ pendencies[j].motivo = "produto_nao_encontrado"
                      /\ pendencies[j].texto_original = items[k].raw
                      /\ Remove(pendencies, j) = rest.pendencies)

\* an unmatched line with two additions, followed by a line that is matched
C7_Witness ==
    /\ pc = "done" /\ Len(items) = 2 /\ Len(cart) = 1
    /\ Len(items[1].additions) = 2
    /\ _match_product(items[1], Products, wratio) = <<>>
    /\ Len(pendencies) = 1

\* C8: an additive-only line yields exactly one addition-not-found pendency
\* whose original text is the line's raw text, and never a cart item, even
\* when its name is that of a product.
C8_AdditiveOnly ==
    [][(pc = "matching" /\ idx < Len(items) /\ Line.is_additional_only) =>
          /\ pc' = "matching" /\ cart' = cart
          /\ Len(pendencies') = Len(pendencies) + 1
          /\ SubSeq(pendencies', 1, Len(pendencies)) = pendencies
          /\ pendencies'[Len(pendencies')].motivo = "adicional_nao_encontrado"
          /\ pendencies'[Len(pendencies')].texto_original = Line.raw]_vars

\* the result of an additive-only line whose name is the name of a product
C8_Witness ==
    /\ pc = "done" /\ Len(items) = 1 /\ items[1].is_additional_only
    /\ \E i \in 1..Len(Products) : Products[i].fingerprint = make_fingerprint(items[1].name)
    /\ cart = <<>> /\ Len(pendencies) = 1

\* the products whose fingerprint is that of the text t
WithFingerprint(t) ==
    With(make_fingerprint(t), LAMBDA fp : SelectSeq(Products, LAMBDA p : p.fingerprint = fp))

\* a step of the loop selects the product of its line by the text t: the
\* only product with the fingerprint of t when there is exactly one, whatever
\* the size hint, the filters and the scores; otherwise a product that the
\* fuzzy ranking scored against `query` at the threshold or above
SelectsBy(t, query) ==
    With(WithFingerprint(t), LAMBDA exact :
    With(IF CartStep THEN <<normalize_text(query), normalize_text(NewItem.nome)>> ELSE <<>>,
         LAMBDA scored :
       /\ Len(exact) = 1 =>
             /\ CartStep
             /\ NewItem.pdv = exact[1].pdv /\ NewItem.nome = exact[1].nome_original
       /\ (Len(exact) # 1 /\ CartStep) =>
             /\ scored \in DOMAIN wratio'
             /\ wratio'[scored] >= 60))

\* C9 as stated: the product whose fingerprint equals that of the line's
\* match text is selected when exactly one product has it; with none or
\* several, selection falls through to the filters and the fuzzy ranking.
C9_MatchTextFingerprint ==
    [][(ProductStep /\ pc' = "matching") =>
          SelectsBy(Line.match_text, Or(Line.match_text, Line.name))]_vars

\* C9: the same of the line's lookup text, which is its match text or, when
\* the match text is empty, its candidate name.
C9_LookupTextFingerprint ==
    [][(ProductStep /\ pc' = "matching") =>
          SelectsBy(Or(Line.match_text, Line.name), Or(Line.match_text, Line.name))]_vars

\* a line without match text whose product the fingerprint of its name selected
C9_Witness ==
    /\ pc = "done" /\ Len(items) = 1 /\ items[1].match_text = <<>>
    /\ Len(cart) = 1 /\ wratio = <<>>
    /\ Len(WithFingerprint(items[1].name)) = 1
    /\ cart[1].pdv = WithFingerprint(items[1].name)[1].pdv

\* C10 as stated: find_best_match returns exactly (none, 0.0) when there is
\* no candidate and when every candidate scores below the threshold;
\* otherwise an original candidate with a score at or above the threshold.
C10_NoneWithZero ==
    call # <<>> =>
       With(call[1], LAMBDA made :
       With(Scores(normalize_text(made.query), NormalizedCandidates(made.candidates), wratio),
            LAMBDA sc :
          IF made.candidates = <<>> \/ \A i \in 1..Len(sc) : sc[i] < made.threshold
          THEN made.result = [match |-> <<>>, score |-> 0]
          ELSE /\ made.result.match # <<>>
               /\ \E i \in 1..Len(sc) :
                     /\ made.candidates[i] = made.result.match[1]
                     /\ sc[i] = made.result.score
               /\ made.result.score >= made.threshold))

\* the lines _split_segments classifies: the non-blank lines of the message,
\* their metadata stripped, that are not empty then
ClassifiedLines(t) ==
    With(SplitLines(_cut_context(t)), LAMBDA raw :
       SelectSeq([i \in 1..Len(raw) |-> _strip_metadata(Strip(raw[i]))],
                 LAMBDA l : l # <<>>))

\* the line has a quantity marker: a place where an item starts
HasQuantityMarker(line) == ItemStarts(line, 1) # <<>>

HasContextKeyword(line) == HasPat(line, ContextPat)

\* the segments of the lines of t that `discard` does not take
SegmentsBut(t, discard(_)) ==
    With(ClassifiedLines(t), LAMBDA lines :
       ConcatAll([i \in 1..Len(lines) |->
                    IF discard(lines[i]) THEN <<>> ELSE LineSegments(lines[i])]))

\* the draft lines as the segments they were parsed from
Raws == [i \in 1..Len(items) |-> items[i].raw]

C12_EmptyNameKept ==
    /\ pc \in {"parsed", "resolved"} =>
          /\ Len(items) = Len(_split_segments(_cut_context(text)))
          /\ Raws = IF text = <<>> THEN <<>> ELSE _split_segments(_cut_context(text))
    /\ pc \in {"matching", "done", "raised"} =>
          \A k \in 1..idx :
             items[k].name = <<>> => HasPendency(items[k], pendencies)

\* a message of a nameless line and a named one has given one pendency for
\* the first and one cart item for the second
C12_Witness ==
    /\ pc = "done" /\ Len(items) = 2
    /\ items[1].name = <<>> /\ ~items[1].is_additional_only
    /\ Len(pendencies) = 1 /\ pendencies[1].texto_original = items[1].raw
    /\ pendencies[1].motivo = "produto_nao_encontrado"
    /\ Len(cart) = 1

\* no string occurs twice in xs
Distinct(xs) == \A i, j \in 1..Len(xs) : i < j => xs[i] # xs[j]

FirstIndex(xs, x) == Min({i \in 1..Len(xs) : xs[i] = x})

\* the entries of out are entries of norm, in the order in which they first
\* occur in norm
InFirstSeenOrder(out, norm) ==
    /\ Range(out) \subseteq Range(norm)
    /\ \A a, b \in 1..Len(out) :
          a < b => FirstIndex(norm, out[a]) <= FirstIndex(norm, out[b])

\* the removals the resolver works on: those of the draft line, and "salada
\* geral" after them when the resolver has added it
RemovalsIn(parsed, resolved) ==
    IF <<"s","a","l","a","d","a"," ","g","e","r","a","l">> \in Range(resolved.removals)
    THEN Append(parsed.removals, <<"s","a","l","a","d","a"," ","g","e","r","a","l">>)
    ELSE parsed.removals

\* C13: after resolve_parsed_items neither the additions nor the removals of
\* a line hold the same normalized string twice, and the entries of each list
\* keep the order of their first occurrence in the input list.
C13_DedupedInOrder ==
    pc = "resolved" =>
       \A parsed \in {parse_order_text(text)} :
       \A i \in 1..Len(items) :
          /\ Distinct(items[i].additions)
          /\ Distinct(items[i].removals)
          /\ InFirstSeenOrder(items[i].additions,
                [k \in 1..Len(parsed[i].additions) |-> normalize_text(parsed[i].additions[k])])
          /\ InFirstSeenOrder(items[i].removals,
                [k \in 1..Len(RemovalsIn(parsed[i], items[i])) |->
                    SubPat(normalize_text(RemovalsIn(parsed[i], items[i])[k]),
                           WordPat(<<"e","v","i","l","h","a">>), <<"e","r","v","i","l","h","a">>)])

\* C14: no component changes its input.  _resolve_item returns the object it
\* was handed (line 100), so the lines of resolve_parsed_items' result are
\* the objects passed in, as the call has left them: they carry the fields
\* they had before the call; and a step of match_items leaves the lines and
\* the snapshot, its entries and their order, as they were.
C14_InputsUnchanged ==
    [][/\ (pc = "parsed" /\ pc' = "resolved") => items' = items
       /\ (pc \in {"resolved", "matching"}) => (items' = items /\ menu' = menu)]_vars

\* C15: the pipeline is deterministic and stateless: two runs on the same
\* text and snapshot, whatever their order and whatever runs lie between
\* them, give the same outcome: the same items, the same pendencies in the
\* same order and the same confidence (or the same exception).
C15_SameOutcome ==
    \A i, j \in 1..Len(results) :
       (results[i].text = results[j].text /\ results[i].menu = results[j].menu)
          => results[i].outcome = results[j].outcome

\* a run that put a fuzzily matched item in the cart and left a pendency has
\* been repeated after a run on another text
C15_Witness ==
    /\ Len(results) = 3
    /\ results[1].text = results[3].text /\ results[1].menu = results[3].menu
    /\ results[2].text # results[1].text
    /\ ~results[1].outcome.raised /\ Len(results[1].outcome.items) = 1
    /\ Len(results[1].outcome.pendencies) = 1
    /\ ~results[3].outcome.raised
    /\ wratio # <<>>

\* C16 as stated: the match text is a function of the candidate name alone:
\* two draft lines of equal candidate name receive equal match texts from
\* resolve_parsed_items, whatever their quantity, additions, removals and
\* notes.
C16_NameAlone ==
    pc = "resolved" =>
       \A i, j \in 1..Len(items) :
          items[i].name = items[j].name => items[i].match_text = items[j].match_text

\* C16: two draft lines of equal candidate name receive equal match texts,
\* whatever their quantity, removals and notes, and whatever their additions
\* unless the lines are batata frita lines, whose additions the resolver
\* merges into the match text: those receive equal match texts when their
\* additions are equal too.
C16_NameAndMergedAdditions ==
    pc = "resolved" =>
       \A parsed \in {parse_order_text(text)} :
       \A i, j \in 1..Len(items) :
          (/\ items[i].name = items[j].name
           /\ \/ parsed[i].additions = parsed[j].additions
              \/ ~Contains(items[i].match_text, <<"b","a","t","a","t","a"," ","f","r","i","t","a">>))
          => items[i].match_text = items[j].match_text

\* two lines of one candidate name that differ in quantity, additions and
\* removals have received one match text
C16_Witness ==
    /\ pc = "resolved" /\ Len(items) = 2
    /\ items[1].name = items[2].name
    /\ items[1].quantity # items[2].quantity
    /\ items[1].additions # items[2].additions
    /\ items[1].removals # items[2].removals
    /\ items[1].match_text = items[2].match_text
    /\ items[1].match_text # items[1].name

\* the entry and the item have the same product, the same notes and the
\* same set of additions (each an addition's product and quantity)
SameMergeKey(entry, item) ==
    /\ entry.pdv = item.pdv /\ entry.observacoes = item.observacoes
    /\ {<<a.pdv, a.quantidade>> : a \in Range(entry.adicionais)}
       = {<<a.pdv, a.quantidade>> : a \in Range(item.adicionais)}

\* C17: add_item(item) adds item.quantidade to an existing entry, the number
\* of entries unchanged, exactly when an entry has the product, the notes and
\* the addition set of the item; otherwise it appends the item as a new entry
\* and leaves every existing entry as it was.
C17_MergeKey ==
    [][call' # <<>> =>
         \A item \in {call'[1].item} :
            IF \E k \in 1..Len(itens) : SameMergeKey(itens[k], item)
            THEN /\ Len(itens') = Len(itens)
                 /\ \E k \in 1..Len(itens) :
                       /\ SameMergeKey(itens[k], item)
                       /\ itens'[k].quantidade = itens[k].quantidade + item.quantidade
                       /\ \A j \in 1..Len(itens) : j # k => itens'[j] = itens[j]
            ELSE itens' = Append(itens, item)]_vars

\* the cart holds an entry that an item with another addition list of the
\* same set has been merged into, and an entry of the same product with
\* other additions beside it
C17_Witness ==
    /\ Len(itens) = 2 /\ call # <<>>
    /\ itens[1].pdv = itens[2].pdv /\ itens[1].observacoes = itens[2].observacoes
    /\ Len(itens[1].adicionais) = 1 /\ itens[1].quantidade = 2
    /\ Len(call[1].item.adicionais) = 2
    /\ SameMergeKey(itens[1], call[1].item)

\* the entries of the snapshot
Entries == Range(menu)

\* an addition entry whose parent is no product of the snapshot
IsOrphan(e) ==
    e.item_type = "addition" /\ \A p \in Entries : p.item_type = "product" => p.pdv # e.parent_pdv

\* C18: every addition attached to a cart item is an addition entry of the
\* snapshot whose parent is the cart item's product; an addition entry whose
\* parent is missing from the snapshot is attached to no cart item, and
\* match_items raises for nothing but a quantity that CartItem refuses.
C18_OwnAdditions ==
    pc \in {"matching", "done", "raised"} =>
       /\ \A k \in 1..Len(cart) : \A a \in Range(cart[k].adicionais) :
             \E e \in Entries :
                /\ e.item_type = "addition" /\ e.pdv = a.pdv
                /\ e.parent_pdv = cart[k].pdv
                /\ a.nome = _clean_addition_name(e.nome_original)
                /\ a.preco_unitario = _to_decimal(e.price)
       /\ \A e \in Entries : IsOrphan(e) =>
             \A k \in 1..Len(cart) : \A a \in Range(cart[k].adicionais) : a.pdv # e.pdv
       /\ pc = "raised" => Line.quantity \notin 1..50

\* a line has asked for two additions, one of its product and one that the
\* snapshot holds only as an orphan: the first is attached, the second is a
\* pendency
C18_Witness ==
    /\ pc = "done" /\ Len(items) = 1 /\ Len(cart) = 1
    /\ Len(items[1].additions) = 2
    /\ Len(cart[1].adicionais) = 1
    /\ \E e \in Entries :
          /\ IsOrphan(e)
          /\ make_fingerprint(_addition_label(e)) = make_fingerprint(items[1].additions[2])
    /\ Len(pendencies) = 1
    /\ pendencies[1].texto_original = items[1].additions[2]

\* the text is empty or made only of greeting and context lines
OnlyContext(t) ==
    \A l \in Range(ClassifiedLines(t)) : GreetingMatch(l) \/ HasContextKeyword(l)

\* C19: a text that is empty or made only of greeting and context lines
\* yields no draft line, and a run without draft lines returns no item, no
\* pendency and the confidence 1.0: the lines dropped as context cost nothing.
C19_NothingFromContext ==
    /\ (pc \in {"parsed", "resolved"} /\ OnlyContext(text)) => items = <<>>
    /\ (pc \in {"matching", "done", "raised"} /\ items = <<>>) =>
          /\ pc # "raised" /\ cart = <<>> /\ pendencies = <<>>
          /\ pc = "done" => confidence = 10

\* the run on a text of one context line, on a snapshot with products, has
\* returned
C19_Witness ==
    /\ pc = "done" /\ text # <<>> /\ items = <<>>
    /\ HasContextKeyword(text) /\ ~GreetingMatch(text)
    /\ Products # <<>>
    /\ cart = <<>> /\ pendencies = <<>> /\ confidence = 10

\* the pair is a transition of the STATE_MACHINE table
InTable(from_state, to_state) ==
    /\ from_state \in DOMAIN STATE_MACHINE
    /\ to_state \in Range(STATE_MACHINE[from_state].allowed_transitions)

\* C20: the FSM makes no invalid jump: whatever transition() is called with,
\* current_state changes only to a state that allowed_transitions lists for
\* the state held before the call, the change is the entry the call adds to
\* transition_history, and every entry of transition_history is a pair of
\* the STATE_MACHINE table.
C20_NoInvalidJumps ==
    [][fsm' # <<>> =>
         /\ fsm'.current_state # fsm.current_state =>
               /\ InTable(fsm.current_state, fsm'.current_state)
               /\ Len(fsm'.transition_history) = Len(fsm.transition_history) + 1
               /\ fsm'.transition_history[Len(fsm'.transition_history)].from_state = fsm.current_state
               /\ fsm'.transition_history[Len(fsm'.transition_history)].to_state = fsm'.current_state
         /\ fsm'.current_state = fsm.current_state =>
               fsm'.transition_history = fsm.transition_history
         /\ \A i \in 1..Len(fsm'.transition_history) :
               InTable(fsm'.transition_history[i].from_state,
                       fsm'.transition_history[i].to_state)]_vars

\* a conversation has gone from the greeting to the confirmation of the
\* items, and a call for a state that is not allowed from there has been
\* refused
C20_Witness ==
    /\ fsm # <<>> /\ call # <<>>
    /\ Len(fsm.transition_history) = 2
    /\ fsm.transition_history[1].from_state = "GREETING"
    /\ fsm.current_state = "CONFIRMING_ITEMS"
    /\ call[1].to_state = "ORDER_SENT" /\ ~call[1].returns

\* the names in required_fields of state s that state_data d lacks
MissingFields(s, d) == {f \in Range(STATE_MACHINE[s].required_fields) : f \notin DOMAIN d}

\* C21: whenever transition() moves the machine into a state, state_data
\* holds every name of that state's required_fields at that moment.
C21_RequiredFieldsPresent ==
    [][(fsm' # <<>> /\ call' # <<>> /\ call'[1].returns) =>
          MissingFields(fsm'.current_state, fsm'.state_data) = {}]_vars

\* the digits of a telephone number, in order
DigitsOf(phone) == FilterChars(phone, Digits)

\* C22: for every input with at least one digit other than zero,
\* normalize_phone returns a string of digits that starts with the country
\* code 55, and for a number of 9 digits it returns "55" and the 9 digits.
C22_CountryCode ==
    call # <<>> =>
       \A made \in {call[1]} :
          (\E i \in 1..Len(made.phone) : made.phone[i] \in Digits \ {"0"}) =>
             /\ \A i \in 1..Len(made.result) : made.result[i] \in Digits
             /\ Len(made.result) >= 2 /\ SubSeq(made.result, 1, 2) = <<"5","5">>
             /\ Len(DigitsOf(made.phone)) = 9 => made.result = <<"5","5">> \o DigitsOf(made.phone)

\* C23: a call of transition() for a state that allowed_transitions of
\* current_state does not list returns False and leaves current_state,
\* state_data and transition_history as they were, whatever `data` it was
\* given.
C23_RejectedChangesNothing ==
    [][(fsm # <<>> /\ call' # <<>> /\ ~InTable(fsm.current_state, call'[1].to_state)) =>
          /\ ~call'[1].returns
          /\ fsm'.current_state = fsm.current_state
          /\ fsm'.state_data = fsm.state_data
          /\ fsm'.transition_history = fsm.transition_history]_vars

\* a call that brought `data` has been refused after a transition was made,
\* and state_data holds nothing
C23_Witness ==
    /\ fsm # <<>> /\ call # <<>>
    /\ ~call[1].returns /\ call[1].data # <<>>
    /\ ~InTable(fsm.current_state, call[1].to_state)
    /\ Len(fsm.transition_history) >= 1 /\ fsm.state_data = <<>>

\* C24: once current_state is ORDER_SENT or CANCELLED, every call of
\* transition() returns False and leaves current_state as it is, and only a
\* call of force_transition() moves the machine out of such a state;
\* is_terminal is true of exactly the states whose allowed_transitions is
\* empty, which are these two.
C24_TerminalAbsorbing ==
    [][(fsm # <<>> /\ call' # <<>>) =>
          /\ (fsm.current_state \in {"ORDER_SENT", "CANCELLED"} /\ call'[1].op = "transition") =>
                (~call'[1].returns /\ fsm' = fsm)
          /\ (fsm.current_state \in {"ORDER_SENT", "CANCELLED"}
                 /\ fsm'.current_state # fsm.current_state) =>
                call'[1].op = "force_transition"
          /\ \A s \in ConversationState :
                /\ is_terminal(FSM(s, <<>>)) <=> STATE_MACHINE[s].allowed_transitions = <<>>
                /\ is_terminal(FSM(s, <<>>)) <=> s \in {"ORDER_SENT", "CANCELLED"}]_vars

\* the order was sent by a transition from its confirmation, and a call of
\* transition() has been refused there
C24_Witness ==
    /\ fsm # <<>> /\ call # <<>>
    /\ fsm.current_state = "ORDER_SENT" /\ is_terminal(fsm)
    /\ fsm.transition_history # <<>>
    /\ fsm.transition_history[Len(fsm.transition_history)].from_state = "CONFIRMING_ORDER"
    /\ fsm.transition_history[Len(fsm.transition_history)].to_state = "ORDER_SENT"
    /\ call[1].op = "transition" /\ ~call[1].returns /\ call[1].to_state = "COLLECTING_ITEMS"

\* C25: whatever the current state and the arguments, suggest_next_state
\* returns None or a state that allowed_transitions of the current state
\* lists, and transition() called with a suggested state returns True.
C25_SuggestionAllowed ==
    call # <<>> =>
       /\ call[1].op = "suggest_next_state" =>
             (call[1].result = <<>> \/ InTable(fsm.current_state, call[1].result[1]))
       /\ call[1].op = "transition" => call[1].returns

\* the states the machine has been in, in order, by transition_history
Visited(self) ==
    IF self.transition_history = <<>> THEN <<self.current_state>>
    ELSE <<self.transition_history[1].from_state>>
         \o [i \in 1..Len(self.transition_history) |-> self.transition_history[i].to_state]

\* the first place of state s in the path (0: never)
FirstVisit(path, s) ==
    IF \E i \in 1..Len(path) : path[i] = s
    THEN Min({i \in 1..Len(path) : path[i] = s}) ELSE 0

\* the states every sent order has passed, in the order of their first visit
OrderMilestones ==
    <<"GREETING", "COLLECTING_ITEMS", "CONFIRMING_ITEMS", "COLLECTING_DELIVERY_TYPE",
      "COLLECTING_PAYMENT", "CONFIRMING_ORDER", "ORDER_SENT">>

\* C26: in a conversation that starts in GREETING and uses transition()
\* only, the machine is in ORDER_SENT only after it has been in
\* COLLECTING_ITEMS, CONFIRMING_ITEMS, COLLECTING_DELIVERY_TYPE,
\* COLLECTING_PAYMENT and CONFIRMING_ORDER, first visited in that order, and
\* the state just before ORDER_SENT is CONFIRMING_ORDER.
C26_OrderOfMilestones ==
    (fsm # <<>> /\ fsm.current_state = "ORDER_SENT") =>
       \A path \in {Visited(fsm)} :
          /\ path[Len(path)] = "ORDER_SENT"
          /\ \A k \in 1..Len(OrderMilestones) : FirstVisit(path, OrderMilestones[k]) # 0
          /\ \A k \in 1..Len(OrderMilestones) - 1 :
                FirstVisit(path, OrderMilestones[k]) < FirstVisit(path, OrderMilestones[k + 1])
          /\ Len(path) >= 2 /\ path[Len(path) - 1] = "CONFIRMING_ORDER"

\* an order sent after eight transitions, the address collected and
\* confirmed on the way
C26_Witness ==
    /\ fsm # <<>> /\ fsm.current_state = "ORDER_SENT"
    /\ Len(fsm.transition_history) = 8
    /\ fsm.transition_history[1].from_state = "GREETING"
    /\ FirstVisit(Visited(fsm), "CONFIRMING_ADDRESS") # 0

\* the size keywords of a hint
SizeKeywords(size_hint) ==
    CASE size_hint = "1/4" -> {<<"1","/","4">>, <<"1","/","4"," ","p","o","r">>, <<"1","/","4"," ","p","o","r","c","a","o">>}
      [] size_hint = "1/2" -> {<<"m","e","i","a">>, <<"1","/","2">>}
      [] OTHER -> {}

\* the places of the products whose normalized name has a size keyword
SizedPlaces(products, size_hint) ==
    {i \in 1..Len(products) :
        \E w \in SizeKeywords(size_hint) : Contains(normalize_text(products[i].nome_original), w)}

\* C27: _filter_by_size_hint returns the products of its input whose
\* normalized name has a size keyword of the hint, in the order of the input,
\* when there is such a product, and the input itself when there is none; so
\* that it returns no empty list for an input that is not empty.
C27_SizeFilter ==
    (call # <<>> /\ "result" \in DOMAIN call[1]) =>
       \A made \in {call[1]} : \A places \in {SizedPlaces(made.products, made.size_hint)} :
          /\ made.products # <<>> => made.result # <<>>
          /\ places = {} => made.result = made.products
          /\ places # {} =>
                made.result = [k \in 1..Cardinality(places) |-> made.products[Nth(places, k)]]

\* of three products the first and the last have a keyword of the hint 1/2,
\* one of them in capitals, and the result is these two in their order
C27_Witness ==
    /\ call # <<>> /\ "result" \in DOMAIN call[1] /\ call[1].size_hint = "1/2"
    /\ Len(call[1].products) = 3 /\ Len(call[1].result) = 2
    /\ call[1].products[1].pdv = "405" /\ call[1].products[2].pdv = "404"
    /\ call[1].products[3].pdv = "402"
    /\ call[1].result = <<call[1].products[1], call[1].products[3]>>

\* the normalized text fully matches one of the CANCEL_PATTERNS
MatchesCancelPattern(normalized) ==
    \E i \in 1..Len(CANCEL_PATTERNS) :
       Len(normalized) + 1 \in Ends(CANCEL_PATTERNS[i], normalized, {1})

\* C28: classify() gives the intent CANCEL to every message whose normalized
\* text fully matches one of the CANCEL_PATTERNS.
C28_CancelClassified ==
    (call # <<>> /\ MatchesCancelPattern(normalize(text))) => call[1].intent = "CANCEL"

\* C29: add_item(item) conserves value: the subtotal of the cart after the
\* call is the subtotal before it plus item.preco_total, whether the item is
\* merged into an entry or appended.
C29_AddConservesValue ==
    [][(call' # <<>> /\ "item" \in DOMAIN call'[1]) =>
          subtotal(itens') = subtotal(itens) + call'[1].item.preco_total]_vars

====
